---- MODULE Spec2Model ----
(***************************************************************************)
(* Evaluation harness of HelloAgents (pkg/evaluation): the GAIA, BFCL and  *)
(* LLM-judge evaluators, their Evaluate loops and the GAIA text scoring.   *)
(*                                                                         *)
(* Text is a sequence of one-character strings: "the x" is                 *)
(* <<"t","h","e"," ","x">>; a rune outside ASCII is written by its name,   *)
(* "<yen>".  Scores are kept as exact fractions.                           *)
(***************************************************************************)
EXTENDS Integers, Sequences, FiniteSets, TLC

(***************************************************************************)
(* Bounds of the model.                                                    *)
(***************************************************************************)
\* the longest dataset of a run
MaxDataset == 3
\* the number of vocabulary pieces an answer text is assembled from
MaxPieces == 4
\* the longest expected answer, in words, of the word-coverage inputs
MaxWords == 10

(***************************************************************************)
(* Characters and the string helpers of Go's strings/unicode packages      *)
(* that the scoring code calls.                                            *)
(***************************************************************************)
Digits == {"0", "1", "2", "3", "4", "5", "6", "7", "8", "9"}

\* unicode.IsSpace
IsSpace(c) == c \in {" ", "\n", "\t"}

\* unicode.IsPunct: the categories P*; "$" and the other currency signs are
\* category Sc and are not punctuation, "%" is category Po and is.
IsPunct(c) == c \in {".", ",", "!", "?", ":", ";", "%", "'", "(", ")"}

\* the symbols normalizeAnswer deletes
CurrencySymbols == {"$", "%", "<yen>", "<euro>", "<pound>"}

UpperLetters ==
    <<"A","B","C","D","E","F","G","H","I","J","K","L","M",
      "N","O","P","Q","R","S","T","U","V","W","X","Y","Z">>

LowerLetters ==
    <<"a","b","c","d","e","f","g","h","i","j","k","l","m",
      "n","o","p","q","r","s","t","u","v","w","x","y","z">>

\* unicode.ToLower
LowerChar(c) ==
    IF \E k \in 1..Len(UpperLetters) : UpperLetters[k] = c
    THEN LowerLetters[CHOOSE k \in 1..Len(UpperLetters) : UpperLetters[k] = c]
    ELSE c

\* strings.ToLower
ToLower(s) == [i \in 1..Len(s) |-> LowerChar(s[i])]

RECURSIVE TrimLeftSpace(_)
TrimLeftSpace(s) ==
    IF s # <<>> /\ IsSpace(Head(s)) THEN TrimLeftSpace(Tail(s)) ELSE s

RECURSIVE TrimRightSpace(_)
TrimRightSpace(s) ==
    IF s # <<>> /\ IsSpace(s[Len(s)])
    THEN TrimRightSpace(SubSeq(s, 1, Len(s) - 1))
    ELSE s

\* strings.TrimSpace
TrimSpace(s) == TrimRightSpace(TrimLeftSpace(s))

\* strings.HasPrefix
HasPrefix(s, p) == Len(s) >= Len(p) /\ SubSeq(s, 1, Len(p)) = p

\* strings.TrimPrefix
TrimPrefix(s, p) == IF HasPrefix(s, p) THEN SubSeq(s, Len(p) + 1, Len(s)) ELSE s

\* strings.Contains: the empty string is contained in every string
Contains(s, sub) ==
    \E i \in 1..(Len(s) - Len(sub) + 1) : SubSeq(s, i, i + Len(sub) - 1) = sub

\* strings.TrimRightFunc(s, unicode.IsPunct)
RECURSIVE TrimRightPunct(_)
TrimRightPunct(s) ==
    IF s # <<>> /\ IsPunct(s[Len(s)])
    THEN TrimRightPunct(SubSeq(s, 1, Len(s) - 1))
    ELSE s

\* strings.ReplaceAll(s, c, "") for each of the one-character symbols
RemoveSymbols(s) == SelectSeq(s, LAMBDA c : c \notin CurrencySymbols)

\* strings.Fields: the maximal runs of non-space characters, in order
RECURSIVE FieldsFrom(_, _, _)
FieldsFrom(s, cur, acc) ==
    IF s = <<>>
    THEN IF cur = <<>> THEN acc ELSE Append(acc, cur)
    ELSE IF IsSpace(Head(s))
         THEN FieldsFrom(Tail(s), <<>>, IF cur = <<>> THEN acc ELSE Append(acc, cur))
         ELSE FieldsFrom(Tail(s), Append(cur, Head(s)), acc)

Fields(s) == FieldsFrom(s, <<>>, <<>>)

\* strings.Join(words, " ")
RECURSIVE JoinSpace(_)
JoinSpace(words) ==
    IF words = <<>> THEN <<>>
    ELSE IF Len(words) = 1 THEN words[1]
    ELSE words[1] \o <<" ">> \o JoinSpace(Tail(words))

(***************************************************************************)
(* GAIA answer normalisation.                                              *)
(***************************************************************************)
\* the regular expression (\d),(\d{3}) matches at position i of s
CommaPatternAt(s, i) ==
    /\ i + 4 <= Len(s)
    /\ s[i] \in Digits
    /\ s[i + 1] = ","
    /\ s[i + 2] \in Digits
    /\ s[i + 3] \in Digits
    /\ s[i + 4] \in Digits

\* re.MatchString(s)
CommaPatternMatches(s) == \E i \in 1..Len(s) : CommaPatternAt(s, i)

\* re.ReplaceAllString(s, "$1$2"): the leftmost matches, not overlapping
RECURSIVE ReplaceAllCommas(_, _)
ReplaceAllCommas(s, i) ==
    IF i > Len(s) THEN <<>>
    ELSE IF CommaPatternAt(s, i)
         THEN <<s[i], s[i + 2], s[i + 3], s[i + 4]>> \o ReplaceAllCommas(s, i + 5)
         ELSE <<s[i]>> \o ReplaceAllCommas(s, i + 1)

RECURSIVE removeNumberCommas(_)
removeNumberCommas(s) ==
    IF CommaPatternMatches(s)
    THEN removeNumberCommas(ReplaceAllCommas(s, 1))
    ELSE s

\* the leading articles, in the order the loop tries them
Articles == << <<"t", "h", "e", " ">>, <<"a", " ">>, <<"a", "n", " ">> >>

\* the loop over articles: the first article that is a prefix is removed,
\* then the loop breaks
RECURSIVE StripArticle(_, _)
StripArticle(s, k) ==
    IF k > Len(Articles) THEN s
    ELSE IF HasPrefix(s, Articles[k]) THEN TrimPrefix(s, Articles[k])
    ELSE StripArticle(s, k + 1)

normalizeAnswer(answer) ==
    JoinSpace(Fields(removeNumberCommas(RemoveSymbols(TrimRightPunct(
        StripArticle(ToLower(TrimSpace(answer)), 1))))))

(***************************************************************************)
(* GAIA text matching.                                                     *)
(***************************************************************************)
\* the loop of evaluateMatch counting the expected words found in the
\* prediction, each occurrence of a repeated word counted
RECURSIVE CountMatchedWords(_, _)
CountMatchedWords(words, pred) ==
    IF words = <<>> THEN 0
    ELSE (IF Contains(pred, Head(words)) THEN 1 ELSE 0)
         + CountMatchedWords(Tail(words), pred)

\* a coverage that has to exceed the threshold
CoverageAbove(matched, total) == 10 * matched > 7 * total

\* coverage >= 0.7 for coverage = float64(matched) / float64(total), total > 0.
\* The quotient of two small integers rounds to the double nearest the exact
\* ratio and 0.7 is the double nearest 7/10, so the comparison of doubles
\* agrees with the exact one.
CoverageReached(matched, total) == 10 * matched >= 7 * total

\* the word-coverage check of evaluateMatch
WordCoverage(normalizedPred, expectedWords) ==
    /\ Len(expectedWords) > 0
    /\ CoverageReached(CountMatchedWords(expectedWords, normalizedPred),
                       Len(expectedWords))

\* a match whose exact branch leaves the partial flag unset
MatchExactOnly(normalizedPred, normalizedExp) ==
    IF normalizedPred = normalizedExp THEN <<TRUE, FALSE>>
    ELSE IF Contains(normalizedPred, normalizedExp)
            \/ Contains(normalizedExp, normalizedPred)
         THEN <<FALSE, TRUE>>
    ELSE <<FALSE, FALSE>>

\* evaluateMatch once both answers are normalised: <<exactMatch, partialMatch>>
MatchNormalized(normalizedPred, normalizedExp) ==
    IF normalizedPred = normalizedExp THEN <<TRUE, TRUE>>
    ELSE IF Contains(normalizedPred, normalizedExp)
            \/ Contains(normalizedExp, normalizedPred)
         THEN <<FALSE, TRUE>>
    ELSE IF WordCoverage(normalizedPred, Fields(normalizedExp))
         THEN <<FALSE, TRUE>>
    ELSE <<FALSE, FALSE>>

evaluateMatch(predicted, expected) ==
    MatchNormalized(normalizeAnswer(predicted), normalizeAnswer(expected))

(***************************************************************************)
(* GAIA answer extraction.  A marker pattern is a sequence of elements,    *)
(* each a set of (lower-case) characters or the empty set, which stands    *)
(* for \s+.                                                                *)
(***************************************************************************)
Lit(str) == [k \in 1..Len(str) |-> {str[k]}]

AnswerPatterns ==
    << Lit(<<"f","i","n","a","l">>) \o <<{}>> \o Lit(<<"a","n","s","w","e","r",":">>),
       Lit(<<"<da>","<an>">>) \o <<{"<fullwidth-colon>", ":"}>>,
       Lit(<<"a","n","s","w","e","r">>) \o <<{"<fullwidth-colon>", ":"}>>,
       Lit(<<"t","h","e">>) \o <<{}>> \o Lit(<<"a","n","s","w","e","r">>) \o <<{}>>
           \o Lit(<<"i","s">>) \o <<{"<fullwidth-colon>", ":"}>> >>

\* the first position at or after i of s that holds no space (Len(s)+1 if none)
RECURSIVE SkipSpace(_, _)
SkipSpace(s, i) ==
    IF i <= Len(s) /\ IsSpace(s[i]) THEN SkipSpace(s, i + 1) ELSE i

\* the position after the marker pat[k..] matched at position i of s, 0 if it
\* does not match there ((?i): letters compare in lower case)
RECURSIVE MarkerEnd(_, _, _, _)
MarkerEnd(s, i, pat, k) ==
    IF k > Len(pat) THEN i
    ELSE IF pat[k] = {}
         THEN IF i <= Len(s) /\ IsSpace(s[i])
              THEN MarkerEnd(s, SkipSpace(s, i), pat, k + 1)
              ELSE 0
    ELSE IF i <= Len(s) /\ LowerChar(s[i]) \in pat[k]
         THEN MarkerEnd(s, i + 1, pat, k + 1)
         ELSE 0

\* the first newline at or after i (Len(s)+1 if none)
RECURSIVE LineEnd(_, _)
LineEnd(s, i) ==
    IF i <= Len(s) /\ s[i] # "\n" THEN LineEnd(s, i + 1) ELSE i

\* re.FindStringSubmatch for marker \s*(.+?)(?:\n|$): the capture of the
\* leftmost match, as <<found, capture>>.  After the marker \s* takes all the
\* space, and the capture runs from the next character to the end of its line.
AfterMarker(s, e) == IF e = 0 THEN 0 ELSE SkipSpace(s, e)

\* where the capture starts if the marker matches at i, else 0
CaptureStart(s, i, pat) == AfterMarker(s, MarkerEnd(s, i, pat, 1))

CaptureFrom(s, p) == <<TRUE, SubSeq(s, p, LineEnd(s, p) - 1)>>

LeftmostCapture(s, pat, starts) ==
    IF starts = {} THEN <<FALSE, <<>> >>
    ELSE CaptureFrom(s, CaptureStart(s, CHOOSE x \in starts : \A y \in starts : x <= y, pat))

PatternCapture(s, pat) ==
    LeftmostCapture(s, pat, {i \in 1..Len(s) : CaptureStart(s, i, pat) \in 1..Len(s)})

\* strings.Split(s, "\n")
RECURSIVE SplitLines(_, _, _)
SplitLines(s, cur, acc) ==
    IF s = <<>> THEN Append(acc, cur)
    ELSE IF Head(s) = "\n" THEN SplitLines(Tail(s), <<>>, Append(acc, cur))
    ELSE SplitLines(Tail(s), Append(cur, Head(s)), acc)

\* the fallback loop: the last line that is not empty once trimmed
RECURSIVE LastNonEmptyLine(_, _, _)
LastNonEmptyLine(lines, i, dflt) ==
    IF i < 1 THEN dflt
    ELSE IF TrimSpace(lines[i]) # <<>> THEN TrimSpace(lines[i])
    ELSE LastNonEmptyLine(lines, i - 1, dflt)

RECURSIVE FirstCapture(_, _)
LastLine(s, lines) == LastNonEmptyLine(lines, Len(lines), s)

\* the body of the loop over the patterns
CaptureOrNext(s, k, matches) ==
    IF matches[1] THEN TrimSpace(matches[2]) ELSE FirstCapture(s, k + 1)

FirstCapture(s, k) ==
    IF k > Len(AnswerPatterns)
    THEN LastLine(s, SplitLines(s, <<>>, <<>>))
    ELSE CaptureOrNext(s, k, PatternCapture(s, AnswerPatterns[k]))

ExtractTrimmed(trimmed) == IF trimmed = <<>> THEN <<>> ELSE FirstCapture(trimmed, 1)

extractAnswer(response) == ExtractTrimmed(TrimSpace(response))

(***************************************************************************)
(* JSON values, as encoding/json decodes them into interface{}: every      *)
(* value is a record of one shape, t naming its kind.  An object keeps its *)
(* keys in keys and the value of keys[k] in items[k].                      *)
(***************************************************************************)
JNull == [t |-> "null", s |-> <<>>, n |-> 0, keys |-> <<>>, items |-> <<>>]

JBool(b) == [t |-> "bool", s |-> <<>>, n |-> IF b THEN 1 ELSE 0, keys |-> <<>>, items |-> <<>>]

JNum(k) == [t |-> "num", s |-> <<>>, n |-> k, keys |-> <<>>, items |-> <<>>]

JStr(str) == [t |-> "str", s |-> str, n |-> 0, keys |-> <<>>, items |-> <<>>]

JList(vs) == [t |-> "list", s |-> <<>>, n |-> 0, keys |-> <<>>, items |-> vs]

JMap(ks, vs) == [t |-> "map", s |-> <<>>, n |-> 0, keys |-> ks, items |-> vs]

\* m[key] of a decoded object: <<present, value>>; of a repeated key the
\* last occurrence is the one the decoder keeps
MapGetAmong(m, hits) ==
    IF m.t # "map" \/ hits = {} THEN <<FALSE, JNull>>
    ELSE <<TRUE, m.items[CHOOSE k \in hits : \A j \in hits : j <= k]>>

MapGet(m, key) == MapGetAmong(m, {k \in 1..Len(m.keys) : m.keys[k] = key})

\* the distinct keys of a decoded object, in order of first occurrence
MapKeys(m) ==
    SelectSeq([k \in 1..Len(m.keys) |-> <<k, m.keys[k]>>],
              LAMBDA e : \A j \in 1..(e[1] - 1) : m.keys[j] # e[2])

(***************************************************************************)
(* json.Unmarshal on a text: strings without escapes, integers, true,      *)
(* false, null, arrays and objects.  A parse step returns                  *)
(* [ok, v, i]: whether a value was read, the value, the position after it. *)
(***************************************************************************)
ParseFail == [ok |-> FALSE, v |-> JNull, i |-> 0]

\* the position of the closing quote of the string opened before i, 0 if none
RECURSIVE StringEnd(_, _)
StringEnd(s, i) ==
    IF i > Len(s) THEN 0
    ELSE IF s[i] = "\"" THEN i
    ELSE IF s[i] = "\\" \/ s[i] = "\n" THEN 0
    ELSE StringEnd(s, i + 1)

\* the position after the digits that start at i
RECURSIVE DigitsEnd(_, _)
DigitsEnd(s, i) ==
    IF i <= Len(s) /\ s[i] \in Digits THEN DigitsEnd(s, i + 1) ELSE i

Digits10 == <<"0", "1", "2", "3", "4", "5", "6", "7", "8", "9">>

DigitValue(c) == CHOOSE d \in 0..9 : Digits10[d + 1] = c

RECURSIVE NatValue(_, _, _, _)
NatValue(s, i, j, acc) ==
    IF i >= j THEN acc ELSE NatValue(s, i + 1, j, 10 * acc + DigitValue(s[i]))

\* the literal word lit stands at position i of s
LiteralAt(s, i, lit) == i + Len(lit) - 1 <= Len(s) /\ SubSeq(s, i, i + Len(lit) - 1) = lit

RECURSIVE ParseValue(_, _)
RECURSIVE ParseElements(_, _, _)
RECURSIVE ParseMembers(_, _, _, _)

RECURSIVE ParseAt(_, _)

\* a string whose opening quote is at i and closing quote at e
ParseString(s, i, e) ==
    IF e = 0 THEN ParseFail
    ELSE [ok |-> TRUE, v |-> JStr(SubSeq(s, i + 1, e - 1)), i |-> e + 1]

\* a number without sign whose digits are s[i..e-1]; no leading zero
ParseNat(s, i, e, sign) ==
    IF e = i \/ (s[i] = "0" /\ e > i + 1) THEN ParseFail
    ELSE [ok |-> TRUE, v |-> JNum(sign * NatValue(s, i, e, 0)), i |-> e]

\* an array whose "[" is at i, j the first position after it that is no space
ParseArray(s, i, j) ==
    IF j <= Len(s) /\ s[j] = "]"
    THEN [ok |-> TRUE, v |-> JList(<<>>), i |-> j + 1]
    ELSE ParseElements(s, i + 1, <<>>)

\* an object whose "{" is at i, j the first position after it that is no space
ParseObject(s, i, j) ==
    IF j <= Len(s) /\ s[j] = "}"
    THEN [ok |-> TRUE, v |-> JMap(<<>>, <<>>), i |-> j + 1]
    ELSE ParseMembers(s, i + 1, <<>>, <<>>)

\* a value that starts at position i, which holds no space
ParseAt(s, i) ==
    IF i > Len(s) THEN ParseFail
    ELSE IF s[i] = "\"" THEN ParseString(s, i, StringEnd(s, i + 1))
    ELSE IF s[i] \in Digits THEN ParseNat(s, i, DigitsEnd(s, i), 1)
    ELSE IF s[i] = "-" THEN ParseNat(s, i + 1, DigitsEnd(s, i + 1), 0 - 1)
    ELSE IF LiteralAt(s, i, <<"n","u","l","l">>)
         THEN [ok |-> TRUE, v |-> JNull, i |-> i + 4]
    ELSE IF LiteralAt(s, i, <<"t","r","u","e">>)
         THEN [ok |-> TRUE, v |-> JBool(TRUE), i |-> i + 4]
    ELSE IF LiteralAt(s, i, <<"f","a","l","s","e">>)
         THEN [ok |-> TRUE, v |-> JBool(FALSE), i |-> i + 5]
    ELSE IF s[i] = "[" THEN ParseArray(s, i, SkipSpace(s, i + 1))
    ELSE IF s[i] = "{" THEN ParseObject(s, i, SkipSpace(s, i + 1))
    ELSE ParseFail

\* a value that starts at or after the space at position i
ParseValue(s, i) == ParseAt(s, SkipSpace(s, i))

\* the elements of an array, the first one starting at i, up to its "]"
AfterElement(s, acc, r, j) ==
    IF ~r.ok \/ j > Len(s) THEN ParseFail
    ELSE IF s[j] = "," THEN ParseElements(s, j + 1, Append(acc, r.v))
    ELSE IF s[j] = "]" THEN [ok |-> TRUE, v |-> JList(Append(acc, r.v)), i |-> j + 1]
    ELSE ParseFail

Element(s, acc, r) == AfterElement(s, acc, r, SkipSpace(s, r.i))

ParseElements(s, i, acc) == Element(s, acc, ParseValue(s, i))

\* the members of an object, the first key starting at i, up to its "}"
AfterMember(s, ks, vs, k, r, j) ==
    IF ~r.ok \/ j > Len(s) THEN ParseFail
    ELSE IF s[j] = ","
         THEN ParseMembers(s, j + 1, Append(ks, k.v.s), Append(vs, r.v))
    ELSE IF s[j] = "}"
         THEN [ok |-> TRUE, v |-> JMap(Append(ks, k.v.s), Append(vs, r.v)),
               i |-> j + 1]
    ELSE ParseFail

Member(s, ks, vs, k, r) == AfterMember(s, ks, vs, k, r, SkipSpace(s, r.i))

AfterKey(s, ks, vs, k, c) ==
    IF ~k.ok \/ k.v.t # "str" \/ c > Len(s) \/ s[c] # ":" THEN ParseFail
    ELSE Member(s, ks, vs, k, ParseValue(s, c + 1))

Key(s, ks, vs, k) == AfterKey(s, ks, vs, k, SkipSpace(s, k.i))

ParseMembers(s, i, ks, vs) == Key(s, ks, vs, ParseValue(s, i))

\* json.Unmarshal(text, &interface{}): <<err == nil, value>>; the text must
\* hold one value and nothing but space around it
WholeText(s, r) ==
    IF r.ok /\ SkipSpace(s, r.i) > Len(s) THEN <<TRUE, r.v>> ELSE <<FALSE, JNull>>

JSONUnmarshal(s) == WholeText(s, ParseValue(s, 1))

(***************************************************************************)
(* BFCL: function calls and their extraction from the agent's response.    *)
(* A FunctionCall is [Name, Arguments], Arguments a decoded object or null *)
(* (a nil map).                                                            *)
(***************************************************************************)
FunctionCall(name, args) == [Name |-> name, Arguments |-> args]

\* the values of the keys of object m that the decoder takes for the struct
\* field tagged f: the key equal to f or equal to it when case is ignored
FieldValues(m, f) ==
    SelectSeq([k \in 1..Len(m.keys) |-> IF ToLower(m.keys[k]) = f THEN m.items[k] ELSE JBool(FALSE)],
              LAMBDA v : v # JBool(FALSE))

\* the last value of kind t among vs, dflt if none
RECURSIVE LastOfKind(_, _, _)
LastOfKind(vs, t, dflt) ==
    IF vs = <<>> THEN dflt
    ELSE IF vs[Len(vs)].t = t THEN vs[Len(vs)]
    ELSE LastOfKind(SubSeq(vs, 1, Len(vs) - 1), t, dflt)

\* the FunctionCall of a variable that nothing was decoded into
ZeroCall == FunctionCall(<<>>, JNull)

\* the Arguments after the values args[k..] are decoded into the map cur one
\* after the other: an object adds its members to the map there is (a new
\* one if there is none), null sets the map to nil, and a value of another
\* kind is a type error that leaves the map as it is
RECURSIVE DecodeArgs(_, _, _)
MergeArgs(cur, m) ==
    IF cur.t # "map" THEN m ELSE JMap(cur.keys \o m.keys, cur.items \o m.items)

DecodeArgs(cur, args, k) ==
    IF k > Len(args) THEN cur
    ELSE DecodeArgs(IF args[k].t = "null" THEN JNull
                    ELSE IF args[k].t = "map" THEN MergeArgs(cur, args[k])
                    ELSE cur,
                    args, k + 1)

\* json.Unmarshal of one value into the FunctionCall prev: [ok, call].  Only
\* the fields the value has are set: name accepts a string or null (which
\* changes nothing), arguments an object or null.  After a type error the
\* decoder goes on, so call is what the variable holds also when ok is FALSE.
FillInto(prev, names, args) ==
    [ok   |-> /\ \A k \in 1..Len(names) : names[k].t \in {"str", "null"}
              /\ \A k \in 1..Len(args) : args[k].t \in {"map", "null"},
     call |-> FunctionCall(LastOfKind(names, "str", JStr(prev.Name)).s,
                           DecodeArgs(prev.Arguments, args, 1))]

DecodeCallInto(prev, v) ==
    IF v.t = "null" THEN [ok |-> TRUE, call |-> prev]
    ELSE IF v.t # "map" THEN [ok |-> FALSE, call |-> prev]
    ELSE FillInto(prev, FieldValues(v, <<"n","a","m","e">>),
                  FieldValues(v, <<"a","r","g","u","m","e","n","t","s">>))

\* the same into a new variable
FillCall(names, args) == FillInto(ZeroCall, names, args)

DecodeCall(v) == DecodeCallInto(ZeroCall, v)

\* json.Unmarshal(text, &calls) for calls []FunctionCall: [ok, calls]
EachCall(ds) ==
    [ok    |-> \A k \in 1..Len(ds) : ds[k].ok,
     calls |-> [k \in 1..Len(ds) |-> ds[k].call]]

DecodeList(r) ==
    IF ~r[1] THEN [ok |-> FALSE, calls |-> <<>>]
    ELSE IF r[2].t = "null" THEN [ok |-> TRUE, calls |-> <<>>]
    ELSE IF r[2].t # "list" THEN [ok |-> FALSE, calls |-> <<>>]
    ELSE EachCall([k \in 1..Len(r[2].items) |-> DecodeCall(r[2].items[k])])

DecodeCallList(text) == DecodeList(JSONUnmarshal(text))

\* json.Unmarshal(text, &calls) for a variable calls that was decoded into
\* before: [ok, calls, left].  prev is what the array under the slice holds;
\* the decoder decodes the k-th element of the list into the k-th element of
\* that array without clearing it, so the fields a call of the list does not
\* have keep what an earlier decoding put there.  left is what the array
\* holds afterwards.  A text that is not JSON changes nothing.
ElementInto(prev, items, k) ==
    DecodeCallInto(IF k <= Len(prev) THEN prev[k] ELSE ZeroCall, items[k])

ListInto(prev, ds) ==
    [ok    |-> \A k \in 1..Len(ds) : ds[k].ok,
     calls |-> [k \in 1..Len(ds) |-> ds[k].call],
     left  |-> [k \in 1..Len(ds) |-> ds[k].call] \o SubSeq(prev, Len(ds) + 1, Len(prev))]

DecodeListInto(prev, r) ==
    IF ~r[1] THEN [ok |-> FALSE, calls |-> <<>>, left |-> prev]
    ELSE IF r[2].t = "null" THEN [ok |-> TRUE, calls |-> <<>>, left |-> <<>>]
    ELSE IF r[2].t # "list" THEN [ok |-> FALSE, calls |-> <<>>, left |-> prev]
    ELSE IF r[2].items = <<>> THEN [ok |-> TRUE, calls |-> <<>>, left |-> <<>>]
    ELSE ListInto(prev, [k \in 1..Len(r[2].items) |-> ElementInto(prev, r[2].items, k)])

\* json.Unmarshal(text, &singleCall) && singleCall.Name != "": [ok, calls]
SingleCall(r, d) ==
    IF r[1] /\ d.ok /\ d.call.Name # <<>>
    THEN [ok |-> TRUE, calls |-> <<d.call>>]
    ELSE [ok |-> FALSE, calls |-> <<>>]

DecodeSingle(r) == SingleCall(r, DecodeCall(r[2]))

DecodeSingleCall(text) == DecodeSingle(JSONUnmarshal(text))

\* json.Unmarshal(text, &singleCall) && singleCall.Name != "" for a variable
\* singleCall that holds prev: [ok, calls, left], left what it holds afterwards
SingleInto(prev, r, d) ==
    IF ~r[1] THEN [ok |-> FALSE, calls |-> <<>>, left |-> prev]
    ELSE [ok    |-> d.ok /\ d.call.Name # <<>>,
          calls |-> <<d.call>>,
          left  |-> d.call]

DecodeSingleInto(prev, r) == SingleInto(prev, r, DecodeCallInto(prev, r[2]))

\* the first position at or after i where lit stands in s, 0 if none
RECURSIVE IndexFrom(_, _, _)
IndexFrom(s, i, lit) ==
    IF i + Len(lit) - 1 > Len(s) THEN 0
    ELSE IF LiteralAt(s, i, lit) THEN i
    ELSE IndexFrom(s, i + 1, lit)

\* the position after the match of lit that IndexFrom finds, 0 if none
AfterLit(a, lit) == IF a = 0 THEN 0 ELSE a + Len(lit)

AfterNext(s, i, lit) == IF i = 0 THEN 0 ELSE AfterLit(IndexFrom(s, i, lit), lit)

\* jsonPattern \[[\s\S]*?\{[\s\S]*?"name"[\s\S]*?\}[\s\S]*?\] searched from
\* position i: <<start, position after the match>>, <<0, 0>> if none.  Every
\* gap is lazy, so each piece is the first one after the piece before it.
ArraySpan(a, e) == IF a = 0 \/ e = 0 THEN <<0, 0>> ELSE <<a, e>>

ArrayFrom(s, a) ==
    ArraySpan(a, AfterNext(s, AfterNext(s, AfterNext(s, AfterNext(s,
                     IF a = 0 THEN 0 ELSE a + 1,
                     <<"{">>), <<"\"","n","a","m","e","\"">>), <<"}">>), <<"]">>))

JSONArrayMatch(s, i) == ArrayFrom(s, IndexFrom(s, i, <<"[">>))

\* the loop over jsonPattern.FindAllString(response, -1): the first match
\* that decodes to a non-empty list of calls
RECURSIVE FirstArrayCalls(_, _)
TryArray(s, m, d) ==
    IF d.ok /\ Len(d.calls) > 0 THEN d ELSE FirstArrayCalls(s, m[2])

ArrayCalls(s, m) ==
    IF m[1] = 0 THEN [ok |-> FALSE, calls |-> <<>>]
    ELSE TryArray(s, m, DecodeCallList(SubSeq(s, m[1], m[2] - 1)))

FirstArrayCalls(s, i) == ArrayCalls(s, JSONArrayMatch(s, i))

\* three backquotes: the fence of a Markdown code block
Fence == <<"<backquote>", "<backquote>", "<backquote>">>

\* codeBlockPattern, fence (?:json)?\s*([\s\S]*?) fence, searched from position i:
\* <<found, captured content, position after the match>>
RECURSIVE CodeBlockMatch(_, _)
BlockClose(s, a, p, c) ==
    IF c = 0 THEN CodeBlockMatch(s, a + 1)
    ELSE <<TRUE, SubSeq(s, p, c - 1), c + 3>>

BlockContent(s, a, p) == BlockClose(s, a, p, IndexFrom(s, p, Fence))

BlockOpen(s, a) ==
    IF a = 0 THEN <<FALSE, <<>>, 0>>
    ELSE BlockContent(s, a, SkipSpace(s, IF LiteralAt(s, a + 3, <<"j","s","o","n">>)
                                        THEN a + 7 ELSE a + 3))

CodeBlockMatch(s, i) == BlockOpen(s, IndexFrom(s, i, Fence))

\* what a strategy that succeeded returns
Returned(d) == [ok |-> TRUE, calls |-> d.calls]

\* the loop over codeBlockPattern.FindAllStringSubmatch(response, -1).  It
\* decodes into the variables calls and singleCall of strategies 1 and 3,
\* which hold what the decodings before left in them.
RECURSIVE FirstCodeBlockCalls(_, _, _, _)
BlockSingle(s, m, calls, single) ==
    IF single.ok THEN Returned(single)
    ELSE FirstCodeBlockCalls(s, m[3], calls, single.left)

BlockList(s, m, content, list, singleCall) ==
    IF list.ok THEN Returned(list)
    ELSE BlockSingle(s, m, list.left, DecodeSingleInto(singleCall, JSONUnmarshal(content)))

BlockCalls(s, m, content, calls, singleCall) ==
    BlockList(s, m, content, DecodeListInto(calls, JSONUnmarshal(content)), singleCall)

BlockMatch(s, m, calls, singleCall) ==
    IF ~m[1] THEN [ok |-> FALSE, calls |-> <<>>]
    ELSE BlockCalls(s, m, TrimSpace(m[2]), calls, singleCall)

FirstCodeBlockCalls(s, i, calls, singleCall) ==
    BlockMatch(s, CodeBlockMatch(s, i), calls, singleCall)

\* extractFunctionCalls: [ok, calls], ok = FALSE when it returns an error
\* strategy 3 (the whole response as one call), then strategy 4 (code blocks)
ExtractSingle(r, calls, single) ==
    IF single.ok THEN Returned(single)
    ELSE FirstCodeBlockCalls(r, 1, calls, single.left)

\* strategy 2: the arrays found in the response, each decoded into a new
\* variable
ExtractArrays(r, calls, found) ==
    IF found.ok THEN found
    ELSE ExtractSingle(r, calls, DecodeSingleInto(ZeroCall, JSONUnmarshal(r)))

\* strategy 1: the whole response as a list of calls
ExtractList(r, list) ==
    IF list.ok THEN Returned(list)
    ELSE ExtractArrays(r, list.left, FirstArrayCalls(r, 1))

ExtractFrom(r) ==
    IF r = <<>> THEN [ok |-> FALSE, calls |-> <<>>]
    ELSE ExtractList(r, DecodeListInto(<<>>, JSONUnmarshal(r)))

extractFunctionCalls(response) == ExtractFrom(TrimSpace(response))

(***************************************************************************)
(* BFCL: the ground truth and the comparison of calls.                     *)
(***************************************************************************)
\* \w of the regular expressions
IsWordChar(c) ==
    \/ c \in Digits
    \/ c = "_"
    \/ \E k \in 1..Len(UpperLetters) : c = UpperLetters[k] \/ c = LowerLetters[k]

\* the position after the word characters that start at i
RECURSIVE WordEnd(_, _)
WordEnd(s, i) ==
    IF i <= Len(s) /\ IsWordChar(s[i]) THEN WordEnd(s, i + 1) ELSE i

\* the first comma at or after i (Len(s)+1 if none)
RECURSIVE CommaOrEnd(_, _)
CommaOrEnd(s, i) ==
    IF i <= Len(s) /\ s[i] # "," THEN CommaOrEnd(s, i + 1) ELSE i

\* strings.Trim(s, cutset) for the cutset of the two quote characters
RECURSIVE TrimQuotes(_)
TrimQuotes(s) ==
    IF s # <<>> /\ Head(s) \in {"\"", "'"} THEN TrimQuotes(Tail(s))
    ELSE IF s # <<>> /\ s[Len(s)] \in {"\"", "'"} THEN TrimQuotes(SubSeq(s, 1, Len(s) - 1))
    ELSE s

\* argPattern (\w+)\s*=\s*([^,]+) matched with its name starting at i:
\* <<matched, name, value text, position after the match>>.  \s* gives one
\* space back to the value when nothing but space precedes the comma.
ArgUpTo(s, i, w, p, c) == <<TRUE, SubSeq(s, i, w - 1), SubSeq(s, p, c - 1), c>>

ArgText(s, i, w, q, p) ==
    IF p <= Len(s) /\ s[p] # "," THEN ArgUpTo(s, i, w, p, CommaOrEnd(s, p))
    ELSE IF p > q + 1 THEN ArgUpTo(s, i, w, p - 1, p)
    ELSE <<FALSE, <<>>, <<>>, 0>>

ArgEquals(s, i, w, q) ==
    IF ~(i <= Len(s) /\ IsWordChar(s[i])) \/ q > Len(s) \/ s[q] # "="
    THEN <<FALSE, <<>>, <<>>, 0>>
    ELSE ArgText(s, i, w, q, SkipSpace(s, q + 1))

ArgName(s, i, w) == ArgEquals(s, i, w, SkipSpace(s, w))

ArgMatchAt(s, i) == ArgName(s, i, WordEnd(s, i))

\* the value of one textual argument: a JSON value, else the text without
\* its quotes
DecodedOrText(paramVal, r) == IF r[1] THEN r[2] ELSE JStr(TrimQuotes(paramVal))

ParamValue(paramVal) == DecodedOrText(paramVal, JSONUnmarshal(paramVal))

ArgValue(text) == ParamValue(TrimSpace(text))

\* the loop over argPattern.FindAllStringSubmatch(argsStr, -1), filling the
\* arguments map (a later assignment to a name replaces the earlier one)
RECURSIVE ParseArgs(_, _, _, _)
NextArg(s, i, ks, vs, m) ==
    IF m[1] THEN ParseArgs(s, m[4], Append(ks, m[2]), Append(vs, ArgValue(m[3])))
    ELSE ParseArgs(s, i + 1, ks, vs)

ParseArgs(s, i, ks, vs) ==
    IF i > Len(s) THEN JMap(ks, vs)
    ELSE NextArg(s, i, ks, vs, ArgMatchAt(s, i))

\* parsePythonFunctionCall: [ok, call]; the pattern is ^(\w+)\((.*)\)$
PythonCall(s, w) ==
    IF \/ w = 1 \/ w > Len(s) \/ s[w] # "("
       \/ s[Len(s)] # ")" \/ Len(s) < w + 1
       \/ \E k \in 1..Len(s) : s[k] = "\n"
    THEN [ok |-> FALSE, call |-> FunctionCall(<<>>, JMap(<<>>, <<>>))]
    ELSE [ok |-> TRUE,
          call |-> FunctionCall(SubSeq(s, 1, w - 1),
                                ParseArgs(SubSeq(s, w + 1, Len(s) - 1), 1, <<>>, <<>>))]

PythonTrimmed(s) == PythonCall(s, WordEnd(s, 1))

parsePythonFunctionCall(str) == PythonTrimmed(TrimSpace(str))

\* the value when of a list the last element is taken
LastOfList(v) == IF v.t = "list" /\ Len(v.items) > 0 THEN v.items[Len(v.items)] ELSE v

\* the parameters of one function of the function-name-keyed form: of a
\* non-empty list the first element, of anything else the value itself
FirstOf(v) == IF v.t = "list" /\ Len(v.items) > 0 THEN v.items[1] ELSE v

FirstOfEach(params, ks) ==
    JMap([k \in 1..Len(ks) |-> ks[k][2]],
         [k \in 1..Len(ks) |-> FirstOf(MapGet(params, ks[k][2])[2])])

FirstAcceptable(params) ==
    IF params.t # "map" THEN JMap(<<>>, <<>>) ELSE FirstOfEach(params, MapKeys(params))

RECURSIVE parseGroundTruthItem(_)
RECURSIVE ParseItems(_, _)

\* parseGroundTruthItem returns no error on any input: the calls of the item.
\* The keys of the function-name-keyed form are visited in the order Go
\* iterates the map, which is unspecified: a decoded object holds its keys in
\* the order this loop visits them.  Success does not depend on that order;
\* the Score does so in its last bit only, through the rounding of its sum.
KeyedCalls(item, ks) ==
    [k \in 1..Len(ks) |->
        FunctionCall(ks[k][2], FirstAcceptable(MapGet(item, ks[k][2])[2]))]

StandardOrKeyed(item, name, args) ==
    IF name[1] /\ name[2].t = "str"
    THEN << FunctionCall(name[2].s, IF args.t = "map" THEN args ELSE JMap(<<>>, <<>>)) >>
    ELSE KeyedCalls(item, MapKeys(item))

PythonItem(r) == IF r.ok THEN <<r.call>> ELSE <<>>

parseGroundTruthItem(item) ==
    IF item.t = "list" THEN ParseItems(item.items, 1)
    ELSE IF item.t = "map"
         THEN StandardOrKeyed(item, MapGet(item, <<"n","a","m","e">>),
                              MapGet(item, <<"a","r","g","u","m","e","n","t","s">>)[2])
    ELSE IF item.t = "str" THEN PythonItem(parsePythonFunctionCall(item.s))
    ELSE <<>>

\* the loops "for _, item := range v" over a list
ParseItems(items, k) ==
    IF k > Len(items) THEN <<>>
    ELSE parseGroundTruthItem(items[k]) \o ParseItems(items, k + 1)

\* parseGroundTruth: [ok, calls], ok = FALSE when it returns an error
RECURSIVE parseGroundTruth(_)
DecodedTruth(r) ==
    IF r[1] THEN parseGroundTruth(r[2]) ELSE [ok |-> FALSE, calls |-> <<>>]

parseGroundTruth(gt) ==
    IF gt.t = "list" THEN [ok |-> TRUE, calls |-> ParseItems(gt.items, 1)]
    ELSE IF gt.t = "map" THEN [ok |-> TRUE, calls |-> parseGroundTruthItem(gt)]
    ELSE IF gt.t = "str" THEN DecodedTruth(JSONUnmarshal(gt.s))
    ELSE [ok |-> FALSE, calls |-> <<>>]

\* the decimal digits of a natural number
RECURSIVE NatText(_)
NatText(n) ==
    IF n < 10 THEN <<Digits10[n + 1]>>
    ELSE Append(NatText(n \div 10), Digits10[(n % 10) + 1])

\* the texts of vs joined by sep
RECURSIVE JoinTexts(_, _)
JoinTexts(texts, sep) ==
    IF texts = <<>> THEN <<>>
    ELSE IF Len(texts) = 1 THEN texts[1]
    ELSE texts[1] \o sep \o JoinTexts(Tail(texts), sep)

\* fmt.Sprintf("%v", v) of a decoded value (the numbers of the model are
\* whole; an object prints its keys in sorted order, here in stored order)
RECURSIVE Sprint(_)
Sprint(v) ==
    CASE v.t = "null" -> <<"<","n","i","l",">">>
      [] v.t = "bool" -> IF v.n = 1 THEN <<"t","r","u","e">> ELSE <<"f","a","l","s","e">>
      [] v.t = "num"  -> IF v.n < 0 THEN <<"-">> \o NatText(0 - v.n) ELSE NatText(v.n)
      [] v.t = "str"  -> v.s
      [] v.t = "list" -> <<"[">> \o JoinTexts([k \in 1..Len(v.items) |-> Sprint(v.items[k])], <<" ">>) \o <<"]">>
      [] v.t = "map"  -> <<"m","a","p","[">>
                         \o JoinTexts([k \in 1..Len(v.keys) |-> v.keys[k] \o <<":">> \o Sprint(v.items[k])], <<" ">>)
                         \o <<"]">>

\* strings.EqualFold on the letters of the model
EqualFold(a, b) == ToLower(a) = ToLower(b)

\* the text s without the zeros it ends with
RECURSIVE TrimRightZeros(_)
TrimRightZeros(s) ==
    IF s # <<>> /\ s[Len(s)] = "0" THEN TrimRightZeros(SubSeq(s, 1, Len(s) - 1)) ELSE s

RECURSIVE Pow10(_)
Pow10(e) == IF e = 0 THEN 1 ELSE 10 * Pow10(e - 1)

\* fmt.Sscanf(val, "%f", &f): [ok, m, e] with f = m / 10^e in lowest terms of
\* ten.  Leading space is skipped; the token is an optional sign, digits, and
\* an optional point and digits; what follows the token is not read.
Scanned(neg, i, d, hasP, f, frac, m) ==
    IF d = i /\ (~hasP \/ f = d + 1) THEN [ok |-> FALSE, m |-> 0, e |-> 0]
    ELSE [ok |-> TRUE, m |-> IF neg THEN 0 - m ELSE m, e |-> Len(frac)]

ScanMantissa(s, neg, i, d, hasP, f, frac) ==
    Scanned(neg, i, d, hasP, f, frac,
            NatValue(s, i, d, 0) * Pow10(Len(frac)) + NatValue(frac, 1, Len(frac) + 1, 0))

ScanFraction(s, neg, i, d, hasP, f) ==
    ScanMantissa(s, neg, i, d, hasP, f,
                 IF hasP THEN TrimRightZeros(SubSeq(s, d + 1, f - 1)) ELSE <<>>)

ScanPoint(s, neg, i, d, hasP) ==
    ScanFraction(s, neg, i, d, hasP, IF hasP THEN DigitsEnd(s, d + 1) ELSE d)

ScanWhole(s, neg, i, d) == ScanPoint(s, neg, i, d, d <= Len(s) /\ s[d] = ".")

ScanSign(s, neg, i) == ScanWhole(s, neg, i, DigitsEnd(s, i))

ScanStart(s, i0) ==
    ScanSign(s, i0 <= Len(s) /\ s[i0] = "-",
             IF i0 <= Len(s) /\ s[i0] \in {"-", "+"} THEN i0 + 1 ELSE i0)

ScanFloat(s) == ScanStart(s, SkipSpace(s, 1))

\* toFloat64: [ok, m, e]
toFloat64(v) ==
    IF v.t = "num" THEN [ok |-> TRUE, m |-> v.n, e |-> 0]
    ELSE IF v.t = "str" THEN ScanFloat(v.s)
    ELSE [ok |-> FALSE, m |-> 0, e |-> 0]

SameNumber(aFloat, bFloat) == aFloat.ok /\ bFloat.ok /\ aFloat = bFloat

SameText(a, b, aStr, bStr) ==
    \/ aStr = bStr
    \/ EqualFold(aStr, bStr)
    \/ SameNumber(toFloat64(a), toFloat64(b))

compareValues(a, b) == SameText(a, b, Sprint(a), Sprint(b))

\* the loop of compareFunctionCall over the expected arguments
ParamMatches(predVal, expVal) == predVal[1] /\ compareValues(predVal[2], expVal[2])

\* the count when a parameter counts as soon as the predicted call has it
MatchedParamsPresent(predicted, expected, ks) ==
    Cardinality({k \in 1..Len(ks) : MapGet(predicted.Arguments, ks[k][2])[1]})

MatchedParams(predicted, expected, ks) ==
    Cardinality({k \in 1..Len(ks) :
        ParamMatches(MapGet(predicted.Arguments, ks[k][2]),
                     MapGet(expected.Arguments, ks[k][2]))})

\* compareFunctionCall: the score as the fraction <<numerator, denominator>>
ParamScore(predicted, expected, ks) ==
    IF Len(ks) = 0 THEN <<1, 1>>
    ELSE <<MatchedParams(predicted, expected, ks), Len(ks)>>

\* the comparison when the case of the names is ignored
CompareFoldedNames(predicted, expected) ==
    IF ~EqualFold(predicted.Name, expected.Name) THEN <<0, 1>>
    ELSE ParamScore(predicted, expected, MapKeys(expected.Arguments))

compareFunctionCall(predicted, expected) ==
    IF predicted.Name # expected.Name THEN <<0, 1>>
    ELSE ParamScore(predicted, expected, MapKeys(expected.Arguments))

(***************************************************************************)
(* Fractions <<numerator, denominator>>, denominator > 0, for the scores.  *)
(***************************************************************************)
FracLess(a, b) == a[1] * b[2] < b[1] * a[2]

FracEq(a, b) == a[1] * b[2] = b[1] * a[2]

FracAdd(a, b) == <<a[1] * b[2] + b[1] * a[2], a[2] * b[2]>>

(***************************************************************************)
(* float64 arithmetic on numbers >= 0, as far as the mean of the scores    *)
(* needs it.  A number is [e, m]: m its Precision significant bits, the    *)
(* most significant first and 1, e the exponent of that bit; zero has no   *)
(* bits.  Every operation rounds the exact result to the nearest number,   *)
(* ties to the even one.                                                   *)
(***************************************************************************)
Precision == 53

Zero64 == [e |-> 0, m |-> <<>>]

\* the bits of the natural number n, most significant first
RECURSIVE NatBits(_)
NatBits(n) == IF n = 0 THEN <<>> ELSE Append(NatBits(n \div 2), n % 2)

\* bits plus one: one bit longer, the first bit is the carry.  A bit
\* changes when every bit after it is 1.
IncBits(bits) ==
    [k \in 1..(Len(bits) + 1) |->
        IF k = 1 THEN (IF \A j \in 1..Len(bits) : bits[j] = 1 THEN 1 ELSE 0)
        ELSE IF \A j \in k..Len(bits) : bits[j] = 1 THEN 1 - bits[k - 1]
        ELSE bits[k - 1]]

\* the carry that the sum of the bit sequences a and b, of one length, moves
\* into position k: some later position makes one and every position in
\* between passes it on
CarryInto(a, b, k) ==
    \E j \in (k + 1)..Len(a) :
        /\ a[j] + b[j] = 2
        /\ \A h \in (k + 1)..(j - 1) : a[h] + b[h] = 1

\* the sum of a and b: one bit longer, the first bit is the carry
AddBits(a, b) ==
    [k \in 1..(Len(a) + 1) |->
        IF k = 1 THEN (IF CarryInto(a, b, 0) THEN 1 ELSE 0)
        ELSE (a[k - 1] + b[k - 1] + (IF CarryInto(a, b, k - 1) THEN 1 ELSE 0)) % 2]

\* the long division works on LimbBits bits at a time
LimbBits == 13

RECURSIVE Pow2(_)
Pow2(k) == IF k = 0 THEN 1 ELSE 2 * Pow2(k - 1)

\* the number whose bits are bits[i..i+k-1]
RECURSIVE LimbValue(_, _, _)
LimbValue(bits, i, k) ==
    IF k = 0 THEN 0 ELSE 2 * LimbValue(bits, i, k - 1) + bits[i + k - 1]

\* the LimbBits bits of q
BitsOfLimb(q) == [j \in 1..LimbBits |-> (q \div Pow2(LimbBits - j)) % 2]

\* the long division of bits (so many as whole limbs hold) from position i
\* on by n, entered with remainder r: the bits of the quotient and, after
\* them, the remainder
RECURSIVE QuotRem(_, _, _, _)
DivLimb(bits, i, n, v) ==
    BitsOfLimb(v \div n) \o QuotRem(bits, i + LimbBits, n, v % n)

QuotRem(bits, i, n, r) ==
    IF i > Len(bits) THEN <<r>>
    ELSE DivLimb(bits, i, n, r * Pow2(LimbBits) + LimbValue(bits, i, LimbBits))

Zeros(n) == [k \in 1..n |-> 0]

\* the rounding of the number with the bits given (the first one 1, of
\* exponent e) followed by something more if sticky
RoundUp64(inc, e) ==
    IF inc[1] = 1 THEN [e |-> e + 1, m |-> SubSeq(inc, 1, Precision)]
    ELSE [e |-> e, m |-> Tail(inc)]

Round64(bits, e, sticky) ==
    IF bits = <<>> THEN Zero64
    ELSE IF Len(bits) <= Precision
         THEN [e |-> e, m |-> bits \o Zeros(Precision - Len(bits))]
    ELSE IF /\ bits[Precision + 1] = 1
            /\ \/ sticky
               \/ bits[Precision] = 1
               \/ \E k \in (Precision + 2)..Len(bits) : bits[k] = 1
         THEN RoundUp64(IncBits(SubSeq(bits, 1, Precision)), e)
    ELSE [e |-> e, m |-> SubSeq(bits, 1, Precision)]

\* the same once the zeros the bits start with are dropped
RECURSIVE Norm64(_, _, _)
Norm64(bits, e, sticky) ==
    IF bits # <<>> /\ bits[1] = 0 THEN Norm64(Tail(bits), e - 1, sticky)
    ELSE Round64(bits, e, sticky)

\* float64(n) of a natural number
Nat64(n) == Round64(NatBits(n), Len(NatBits(n)) - 1, FALSE)

\* x / float64(n), n > 0
Divided64(qr, e) == Norm64(SubSeq(qr, 1, Len(qr) - 1), e, qr[Len(qr)] # 0)

DivNat64(x, n) ==
    IF x.m = <<>> THEN Zero64
    ELSE
    Divided64(QuotRem(x.m \o Zeros(Precision + (LimbBits - ((2 * Precision) % LimbBits))),
                      1, n, 0),
              x.e)

\* float64(a) / float64(b)
Quotient64(a, b) == DivNat64(Nat64(a), b)

\* x + y
AddAligned64(x, y, d) ==
    Norm64(AddBits(x.m \o Zeros(d), Zeros(d) \o y.m), x.e + 1, FALSE)

Add64(x, y) ==
    IF x.m = <<>> THEN y
    ELSE IF y.m = <<>> THEN x
    ELSE IF x.e >= y.e THEN AddAligned64(x, y, x.e - y.e)
    ELSE AddAligned64(y, x, y.e - x.e)

(***************************************************************************)
(* BFCL: the score of a sample.                                            *)
(***************************************************************************)
\* the inner loop of evaluateMatch: the best score of expected over the
\* predicted calls pred[k..], starting from best
RECURSIVE BestScore(_, _, _, _)
\* the inner loop when it keeps the score of the last predicted call
LastScore(pred, k, expected, best, score) == BestScore(pred, k + 1, expected, score)

BetterScore(pred, k, expected, best, score) ==
    BestScore(pred, k + 1, expected, IF FracLess(best, score) THEN score ELSE best)

BestScore(pred, k, expected, best) ==
    IF k > Len(pred) THEN best
    ELSE BetterScore(pred, k, expected, best, compareFunctionCall(pred[k], expected))

\* the outer loop: <<matchedCount, totalScore>> over the expected calls
\* exp[k..].  A score of compareFunctionCall is the float64 quotient of the
\* two small integers of its fraction; rounding keeps the order of such
\* quotients and keeps different ones apart, so they are compared as
\* fractions.  totalScore is the float64 sum, in the order of the loop.
RECURSIVE MatchLoop(_, _, _, _, _)
CountMatch(pred, exp, k, matchedCount, totalScore, bestScore) ==
    MatchLoop(pred, exp, k + 1,
              IF ~FracLess(bestScore, <<1, 1>>) THEN matchedCount + 1 ELSE matchedCount,
              Add64(totalScore, Quotient64(bestScore[1], bestScore[2])))

MatchLoop(pred, exp, k, matchedCount, totalScore) ==
    IF k > Len(exp) THEN <<matchedCount, totalScore>>
    ELSE CountMatch(pred, exp, k, matchedCount, totalScore,
                    BestScore(pred, 1, exp[k], <<0, 1>>))

\* evaluateMatch of the BFCL evaluator: [success, score, details], the score
\* a float64
Averaged(predicted, expectedCalls, matchedCount, avgScore) ==
    [success |-> matchedCount = Len(expectedCalls),
     score   |-> avgScore,
     details |-> [expected_calls |-> expectedCalls, predicted_calls |-> predicted,
                  matched_count |-> matchedCount,
                  expected_count |-> Len(expectedCalls),
                  avg_score |-> avgScore]]

MatchedCalls(predicted, expectedCalls, m) ==
    Averaged(predicted, expectedCalls, m[1], DivNat64(m[2], Len(expectedCalls)))

ScoreCalls(predicted, gt) ==
    IF ~gt.ok
    THEN [success |-> FALSE, score |-> Zero64,
          details |-> [gt_parse_error |-> TRUE]]
    ELSE IF Len(predicted) = 0
    THEN [success |-> FALSE, score |-> Zero64,
          details |-> [expected_calls |-> gt.calls, predicted_calls |-> predicted,
                       reason |-> "no function call predicted"]]
    ELSE IF Len(gt.calls) = 0
    THEN [success |-> FALSE, score |-> Zero64,
          details |-> [expected_calls |-> gt.calls, predicted_calls |-> predicted,
                       reason |-> "no expected function call"]]
    ELSE MatchedCalls(predicted, gt.calls, MatchLoop(predicted, gt.calls, 1, 0, Zero64))

bfclEvaluateMatch(predicted, groundTruth) ==
    ScoreCalls(predicted, parseGroundTruth(groundTruth))

(***************************************************************************)
(* LLM judge: the rubric read from the judge's reply.                      *)
(***************************************************************************)
\* the field read whatever its type is
NumberOfAny(v, dflt) == IF v[1] THEN v[2].n ELSE dflt

\* the field of the parsed object when it is a number, else the default
NumberOr(v, dflt) == IF v[1] /\ v[2].t = "num" THEN v[2].n ELSE dflt

NumberField(parsed, key, dflt) == NumberOr(MapGet(parsed, key), dflt)

\* the field of the parsed object when it is a string, else the default
StringOr(v, dflt) == IF v[1] /\ v[2].t = "str" THEN v[2].s ELSE dflt

StringField(parsed, key, dflt) == StringOr(MapGet(parsed, key), dflt)

\* parseJudgeResponse; json.Unmarshal into a map fails on anything but an
\* object or null, and then (and on null) every default stays
JudgeScore(c, cl, d, co, comments) ==
    [Correctness |-> c, Clarity |-> cl, DifficultyMatch |-> d, Completeness |-> co,
     TotalScore |-> <<c + cl + d + co, 4>>,
     Comments |-> comments]

ReadScore(parsed) ==
    JudgeScore(NumberField(parsed, <<"c","o","r","r","e","c","t","n","e","s","s">>, 3),
               NumberField(parsed, <<"c","l","a","r","i","t","y">>, 3),
               NumberField(parsed, <<"d","i","f","f","i","c","u","l","t","y","_","m","a","t","c","h">>, 3),
               NumberField(parsed, <<"c","o","m","p","l","e","t","e","n","e","s","s">>, 3),
               StringField(parsed, <<"c","o","m","m","e","n","t","s">>, <<>>))

DecodedScore(r) == ReadScore(IF r[1] /\ r[2].t = "map" THEN r[2] ELSE JMap(<<>>, <<>>))

BlockScore(response, m) == DecodedScore(JSONUnmarshal(IF m[1] THEN m[2] ELSE response))

parseJudgeResponse(response) == BlockScore(response, CodeBlockMatch(response, 1))

(***************************************************************************)
(* Samples, sample results and the three EvaluateSample methods.  The      *)
(* outcome of the agent (or judge) call is [cause, err, response]: err is  *)
(* the text of the returned error, "" for nil; cause tells the outcomes    *)
(* apart ("ok", "agent", "timeout", "cancelled").                          *)
(***************************************************************************)
Evaluators == {"gaia", "bfcl", "judge"}

Sample(id, expected, level, category) ==
    [ID |-> id, Expected |-> expected, Level |-> level, Category |-> category]

\* the SampleResult every EvaluateSample starts from.  Only the GAIA
\* evaluator copies Level; the samples of the other two datasets carry
\* Level 0, the value the field has when it is not set.
NewSampleResult(sample) ==
    [SampleID |-> sample.ID, Level |-> sample.Level, Category |-> sample.Category,
     Success |-> FALSE, PartialSuccess |-> FALSE, Score |-> <<0, 1>>,
     Error |-> "", Details |-> <<>>]

\* EvaluateSample of the GAIA evaluator; it returns a nil error on every path
GaiaMatched(sr, predictedAnswer, m) ==
    [sr EXCEPT !.Success = m[1],
               !.PartialSuccess = m[2],
               !.Score = IF m[1] THEN <<1, 1>> ELSE IF m[2] THEN <<1, 2>> ELSE <<0, 1>>,
               !.Details = [extracted_answer |-> predictedAnswer,
                            exact_match |-> m[1], partial_match |-> m[2]]]

GaiaAnswered(sample, sr, predictedAnswer) ==
    IF sample.Expected.t # "str"
    THEN [sr EXCEPT !.Error = "expected answer format error",
                    !.Details = [extracted_answer |-> predictedAnswer]]
    ELSE GaiaMatched(sr, predictedAnswer, evaluateMatch(predictedAnswer, sample.Expected.s))

GaiaRun(sample, out, sr) ==
    IF out.err # "" THEN [sr EXCEPT !.Error = out.err]
    ELSE GaiaAnswered(sample, sr, extractAnswer(out.response))

gaiaEvaluateSample(sample, out) == GaiaRun(sample, out, NewSampleResult(sample))

\* Dataset.GetGroundTruth of the BFCL dataset: <<ok, ground truth>>
GetGroundTruth(groundTruth, sampleID) ==
    IF sampleID \in DOMAIN groundTruth THEN <<TRUE, groundTruth[sampleID]>> ELSE <<FALSE, JNull>>

\* EvaluateSample of the BFCL evaluator
BfclMatched(sr, m) ==
    [sr EXCEPT !.Success = m.success, !.Score = m.score, !.Details = m.details]

BfclTruth(sr, predictedCalls, gt) ==
    IF ~gt[1] THEN [sr EXCEPT !.Error = "ground truth not found"]
    ELSE BfclMatched(sr, bfclEvaluateMatch(predictedCalls.calls, gt[2]))

BfclExtracted(groundTruth, sample, sr, predictedCalls) ==
    IF ~predictedCalls.ok
    THEN [sr EXCEPT !.Error = "extracting the function calls failed",
                    !.Details = [extraction_error |-> TRUE]]
    ELSE BfclTruth(sr, predictedCalls, GetGroundTruth(groundTruth, sample.ID))

BfclRun(groundTruth, sample, out, sr) ==
    IF out.err # "" THEN [sr EXCEPT !.Error = out.err]
    ELSE BfclExtracted(groundTruth, sample, sr, extractFunctionCalls(out.response))

\* (the Score of a BFCL result is a float64, zero until evaluateMatch sets it)
bfclEvaluateSample(groundTruth, sample, out) ==
    BfclRun(groundTruth, sample, out, [NewSampleResult(sample) EXCEPT !.Score = Zero64])

\* EvaluateSample of the LLM judge
\* the result when only a mean above 3 passes
JudgeScoredAbove(sr, score, totalScore) ==
    [sr EXCEPT !.Score = totalScore,
               !.Success = FracLess(<<3, 1>>, totalScore),
               !.Details = [judge_score |-> score, total_score |-> totalScore,
                            correctness |-> score.Correctness,
                            clarity |-> score.Clarity,
                            difficulty_match |-> score.DifficultyMatch,
                            completeness |-> score.Completeness,
                            comments |-> score.Comments]]

JudgeScored(sr, score, totalScore) ==
    [sr EXCEPT !.Score = totalScore,
               !.Success = ~FracLess(totalScore, <<3, 1>>),
               !.Details = [judge_score |-> score, total_score |-> totalScore,
                            correctness |-> score.Correctness,
                            clarity |-> score.Clarity,
                            difficulty_match |-> score.DifficultyMatch,
                            completeness |-> score.Completeness,
                            comments |-> score.Comments]]

Judged(sr, score) ==
    JudgeScored(sr, score,
                <<score.Correctness + score.Clarity + score.DifficultyMatch
                  + score.Completeness, 4>>)

JudgeRun(out, sr) ==
    IF out.err # "" THEN [sr EXCEPT !.Error = out.err]
    ELSE Judged(sr, parseJudgeResponse(out.response))

judgeEvaluateSample(sample, out) == JudgeRun(out, NewSampleResult(sample))

\* the call of EvaluateSample in the loop of Evaluate, with the replacement
\* of the result if EvaluateSample returned an error (none of the three does)
ReturnedResult(sample, r) ==
    IF r[2] # "" THEN [NewSampleResult(sample) EXCEPT !.Error = r[2]] ELSE r[1]

EvaluateSample(kind, groundTruth, sample, out) ==
    ReturnedResult(sample,
        CASE kind = "gaia"  -> <<gaiaEvaluateSample(sample, out), "">>
          [] kind = "bfcl"  -> <<bfclEvaluateSample(groundTruth, sample, out), "">>
          [] kind = "judge" -> <<judgeEvaluateSample(sample, out), "">>)

\* how the evaluation of a sample ended, beside the code: "none" or the
\* recoverable failure that ended it
TruthFailure(gt) ==
    IF ~gt[1] THEN "gt_missing"
    ELSE IF ~parseGroundTruth(gt[2]).ok THEN "gt_parse"
    ELSE "none"

SampleFailure(kind, groundTruth, sample, out) ==
    IF out.err # "" THEN out.cause
    ELSE IF kind = "gaia" /\ sample.Expected.t # "str" THEN "expected_format"
    ELSE IF kind = "bfcl" /\ ~extractFunctionCalls(out.response).ok THEN "extraction"
    ELSE IF kind = "bfcl" THEN TruthFailure(GetGroundTruth(groundTruth, sample.ID))
    ELSE "none"

(***************************************************************************)
(* Metrics: the summaries computed from a list of sample results.  A rate  *)
(* is the float64 quotient of two small integers and is held, as the       *)
(* scores of compareFunctionCall are, as the fraction <<num, den>>; the    *)
(* sums, products and differences of rates are held as exact fractions.    *)
(***************************************************************************)
FracSub(a, b) == <<a[1] * b[2] - b[1] * a[2], a[2] * b[2]>>

FracMul(a, b) == <<a[1] * b[1], a[2] * b[2]>>

FracDiv(a, b) == <<a[1] * b[2], a[2] * b[1]>>

\* a counter that counts every result
StepAlways(b) == 1

\* 1 for true, 0 for false: the step of a counter under an if
Step(b) == IF b THEN 1 ELSE 0

\* &MetricsSummary{Extra: make(map[string]interface{})}
NewSummary(zeroScore) ==
    [Accuracy |-> <<0, 1>>, AverageScore |-> zeroScore, Precision |-> <<0, 1>>,
     Recall |-> <<0, 1>>, F1Score |-> <<0, 1>>, Extra |-> <<>>]

\* the loop of Compute of the GAIA metrics over results[k..]
RECURSIVE GaiaTally(_, _, _)
GaiaTally(results, k, t) ==
    IF k > Len(results) THEN t
    ELSE GaiaTally(results, k + 1,
            [exactMatches   |-> t.exactMatches + Step(results[k].Success),
             partialMatches |-> t.partialMatches + Step(results[k].PartialSuccess),
             totalScore     |-> FracAdd(t.totalScore, results[k].Score),
             errorCount     |-> t.errorCount + Step(results[k].Error # "")])

GaiaSummary(totalSamples, t) ==
    [NewSummary(<<0, 1>>) EXCEPT
        !.Accuracy = <<t.exactMatches, totalSamples>>,
        !.AverageScore = <<t.totalScore[1], t.totalScore[2] * totalSamples>>,
        !.Extra = [total_samples |-> totalSamples,
                   exact_matches |-> t.exactMatches,
                   partial_matches |-> t.partialMatches,
                   exact_match_rate |-> <<t.exactMatches, totalSamples>>,
                   partial_match_rate |-> <<t.partialMatches, totalSamples>>,
                   error_count |-> t.errorCount]]

\* Metrics.Compute of the GAIA benchmark
gaiaCompute(results) ==
    IF Len(results) = 0 THEN NewSummary(<<0, 1>>)
    ELSE GaiaSummary(Len(results),
                     GaiaTally(results, 1,
                               [exactMatches |-> 0, partialMatches |-> 0,
                                totalScore |-> <<0, 1>>, errorCount |-> 0]))

\* details[key].(int) and len(details["predicted_calls"]), 0 when the key
\* is absent (Details is never nil in a result of EvaluateSample; a nil map
\* has no key either)
DetailCount(details, key) == IF key \in DOMAIN details THEN details[key] ELSE 0

PredictedCount(details) ==
    IF "predicted_calls" \in DOMAIN details THEN Len(details.predicted_calls) ELSE 0

\* the loop of Compute of the BFCL metrics over results[k..]; the scores
\* are float64 and so is their sum
RECURSIVE BfclTally(_, _, _)
BfclTally(results, k, t) ==
    IF k > Len(results) THEN t
    ELSE BfclTally(results, k + 1,
            [successCount |-> t.successCount + Step(results[k].Success),
             totalScore   |-> Add64(t.totalScore, results[k].Score),
             errorCount   |-> t.errorCount + Step(results[k].Error # ""),
             totalExpectedCalls  |-> t.totalExpectedCalls
                                     + DetailCount(results[k].Details, "expected_count"),
             correctCalls        |-> t.correctCalls
                                     + DetailCount(results[k].Details, "matched_count"),
             totalPredictedCalls |-> t.totalPredictedCalls
                                     + PredictedCount(results[k].Details)])

\* a precision that divides by the expected calls
RateOfExpected(t) ==
    IF t.totalExpectedCalls > 0 THEN <<t.correctCalls, t.totalExpectedCalls>> ELSE <<0, 1>>

\* summary.Precision and summary.Recall
PrecisionOf(t) ==
    IF t.totalPredictedCalls > 0 THEN <<t.correctCalls, t.totalPredictedCalls>> ELSE <<0, 1>>

RecallOf(t) ==
    IF t.totalExpectedCalls > 0 THEN <<t.correctCalls, t.totalExpectedCalls>> ELSE <<0, 1>>

\* summary.F1Score
F1Of(p, r) ==
    IF FracLess(<<0, 1>>, FracAdd(p, r))
    THEN FracDiv(FracMul(FracMul(<<2, 1>>, p), r), FracAdd(p, r))
    ELSE <<0, 1>>

BfclSummary(totalSamples, t) ==
    [NewSummary(Zero64) EXCEPT
        !.Accuracy = <<t.successCount, totalSamples>>,
        !.AverageScore = DivNat64(t.totalScore, totalSamples),
        !.Precision = PrecisionOf(t),
        !.Recall = RecallOf(t),
        !.F1Score = F1Of(PrecisionOf(t), RecallOf(t)),
        !.Extra = [total_samples |-> totalSamples,
                   success_count |-> t.successCount,
                   error_count |-> t.errorCount,
                   total_expected_calls |-> t.totalExpectedCalls,
                   total_predicted_calls |-> t.totalPredictedCalls,
                   correct_calls |-> t.correctCalls]]

\* Metrics.Compute of the BFCL benchmark
bfclCompute(results) ==
    IF Len(results) = 0 THEN NewSummary(Zero64)
    ELSE BfclSummary(Len(results),
                     BfclTally(results, 1,
                               [successCount |-> 0, totalScore |-> Zero64, errorCount |-> 0,
                                totalExpectedCalls |-> 0, correctCalls |-> 0,
                                totalPredictedCalls |-> 0]))

\* &LevelMetrics{Level: level}
NewLevelMetrics(level) ==
    [Level |-> level, Total |-> 0, ExactMatches |-> 0, PartialMatches |-> 0,
     ExactMatchRate |-> <<0, 1>>, PartialMatchRate |-> <<0, 1>>]

\* a level that is taken as it is
LevelAsRead(level) == level

\* level := r.Level; if level == 0 { level = 1 }
LevelOf(level) == IF level = 0 THEN 1 ELSE level

\* a map of levels after m[level] = v
MapPut(m, level, v) ==
    [l \in DOMAIN m \cup {level} |-> IF l = level THEN v ELSE m[l]]

\* lm := levelMetrics[level]; lm.Total++; ...
CountedIn(lm, r) ==
    [lm EXCEPT !.Total = @ + 1,
               !.ExactMatches = @ + Step(r.Success),
               !.PartialMatches = @ + Step(r.PartialSuccess)]

\* the first loop of ComputeLevelMetrics over results[k..]
RECURSIVE LevelTally(_, _, _)
LevelCounted(results, k, levelMetrics, level) ==
    LevelTally(results, k + 1,
               MapPut(levelMetrics, level,
                      CountedIn(IF level \in DOMAIN levelMetrics
                                THEN levelMetrics[level]
                                ELSE NewLevelMetrics(level), results[k])))

LevelTally(results, k, levelMetrics) ==
    IF k > Len(results) THEN levelMetrics
    ELSE LevelCounted(results, k, levelMetrics, LevelOf(results[k].Level))

\* the second loop: the rates of every level that has a result
WithRates(lm) ==
    IF lm.Total > 0
    THEN [lm EXCEPT !.ExactMatchRate = <<lm.ExactMatches, lm.Total>>,
                    !.PartialMatchRate = <<lm.PartialMatches, lm.Total>>]
    ELSE lm

LevelRates(levelMetrics) ==
    [l \in DOMAIN levelMetrics |-> WithRates(levelMetrics[l])]

\* Metrics.ComputeLevelMetrics of the GAIA benchmark
ComputeLevelMetrics(results) == LevelRates(LevelTally(results, 1, <<>>))

\* computeLevelMetrics of the GAIA evaluator, which counts in the map
\* itself: levelStats[level].Total++ ...
RECURSIVE StatsTally(_, _, _)
StatsCreated(levelStats, level) ==
    IF level \in DOMAIN levelStats THEN levelStats
    ELSE MapPut(levelStats, level, NewLevelMetrics(level))

StatsCounted(levelStats, level, sr) ==
    [levelStats EXCEPT ![level].Total = @ + 1,
                       ![level].ExactMatches = IF sr.Success THEN @ + 1 ELSE @,
                       ![level].PartialMatches = IF sr.PartialSuccess THEN @ + 1 ELSE @]

StatsTally(detailed, k, levelStats) ==
    IF k > Len(detailed) THEN levelStats
    ELSE StatsTally(detailed, k + 1,
                    StatsCounted(StatsCreated(levelStats, LevelOf(detailed[k].Level)),
                                 LevelOf(detailed[k].Level), detailed[k]))

StatsRates(levelStats) ==
    [l \in DOMAIN levelStats |->
        IF levelStats[l].Total > 0
        THEN [levelStats[l] EXCEPT
                 !.ExactMatchRate = <<levelStats[l].ExactMatches, levelStats[l].Total>>,
                 !.PartialMatchRate = <<levelStats[l].PartialMatches, levelStats[l].Total>>]
        ELSE levelStats[l]]

computeLevelMetrics(detailed) == StatsRates(StatsTally(detailed, 1, <<>>))

\* cat := sr.Category; if cat == "" { cat = "default" }
CategoryOf(cat) == IF cat = <<>> THEN <<"d","e","f","a","u","l","t">> ELSE cat

\* &CategoryMetrics{Category: cat}
NewCategoryMetrics(cat) ==
    [Category |-> cat, Total |-> 0, Success |-> 0, Accuracy |-> <<0, 1>>]

CategoryCreated(categoryStats, cat) ==
    IF cat \in DOMAIN categoryStats THEN categoryStats
    ELSE MapPut(categoryStats, cat, NewCategoryMetrics(cat))

CategoryCounted(categoryStats, cat, sr) ==
    [categoryStats EXCEPT ![cat].Total = @ + 1,
                          ![cat].Success = IF sr.Success THEN @ + 1 ELSE @]

\* the first loop of computeCategoryMetrics over detailed[k..]
RECURSIVE CategoryTally(_, _, _)
CategoryTally(detailed, k, categoryStats) ==
    IF k > Len(detailed) THEN categoryStats
    ELSE CategoryTally(detailed, k + 1,
                       CategoryCounted(CategoryCreated(categoryStats,
                                                       CategoryOf(detailed[k].Category)),
                                       CategoryOf(detailed[k].Category), detailed[k]))

CategoryRates(categoryStats) ==
    [c \in DOMAIN categoryStats |->
        IF categoryStats[c].Total > 0
        THEN [categoryStats[c] EXCEPT
                 !.Accuracy = <<categoryStats[c].Success, categoryStats[c].Total>>]
        ELSE categoryStats[c]]

\* computeCategoryMetrics of the BFCL evaluator
computeCategoryMetrics(detailed) == CategoryRates(CategoryTally(detailed, 1, <<>>))

\* &MetricsSummary{DimensionScores: make(...), Extra: make(...)} of the judge
NewJudgeSummary ==
    [Accuracy |-> <<0, 1>>, AverageScore |-> <<0, 1>>, PassRate |-> <<0, 1>>,
     ExcellentRate |-> <<0, 1>>, DimensionScores |-> <<>>, Extra |-> <<>>]

\* the loop of computeMetrics of the judge over results[k..]; the four
\* marks are whole numbers and Score is their mean, a number of quarters
RECURSIVE JudgeTally(_, _, _)
JudgeTally(results, k, t) ==
    IF k > Len(results) THEN t
    ELSE JudgeTally(results, k + 1,
            [totalCorrectness     |-> t.totalCorrectness
                                      + DetailCount(results[k].Details, "correctness"),
             totalClarity         |-> t.totalClarity
                                      + DetailCount(results[k].Details, "clarity"),
             totalDifficultyMatch |-> t.totalDifficultyMatch
                                      + DetailCount(results[k].Details, "difficulty_match"),
             totalCompleteness    |-> t.totalCompleteness
                                      + DetailCount(results[k].Details, "completeness"),
             totalScore     |-> FracAdd(t.totalScore, results[k].Score),
             successCount   |-> t.successCount + Step(results[k].Success),
             excellentCount |-> t.excellentCount
                                + Step(~FracLess(results[k].Score, <<4, 1>>))])

JudgeSummary(n, t) ==
    [NewJudgeSummary EXCEPT
        !.AverageScore = <<t.totalScore[1], t.totalScore[2] * n>>,
        !.PassRate = <<t.successCount, n>>,
        !.ExcellentRate = <<t.excellentCount, n>>,
        !.Accuracy = <<t.successCount, n>>,
        !.DimensionScores = [correctness |-> <<t.totalCorrectness, n>>,
                             clarity |-> <<t.totalClarity, n>>,
                             difficulty_match |-> <<t.totalDifficultyMatch, n>>,
                             completeness |-> <<t.totalCompleteness, n>>],
        !.Extra = [total_samples |-> n,
                   success_count |-> t.successCount,
                   excellent_count |-> t.excellentCount]]

\* computeMetrics of the LLM judge
judgeComputeMetrics(results) ==
    IF Len(results) = 0 THEN NewJudgeSummary
    ELSE JudgeSummary(Len(results),
                      JudgeTally(results, 1,
                                 [totalCorrectness |-> 0, totalClarity |-> 0,
                                  totalDifficultyMatch |-> 0, totalCompleteness |-> 0,
                                  totalScore |-> <<0, 1>>, successCount |-> 0,
                                  excellentCount |-> 0]))

\* what the end of Evaluate stores in result.Metrics
ComputeMetrics(kind, results) ==
    CASE kind = "gaia"  -> gaiaCompute(results)
      [] kind = "bfcl"  -> bfclCompute(results)
      [] kind = "judge" -> judgeComputeMetrics(results)

\* the maps the end of Evaluate replaces: LevelMetrics by the GAIA
\* evaluator, CategoryMetrics by the BFCL evaluator
LevelMetricsAtEnd(kind, res) ==
    IF kind = "gaia" THEN computeLevelMetrics(res.DetailedResults) ELSE res.LevelMetrics

CategoryMetricsAtEnd(kind, res) ==
    IF kind = "bfcl" THEN computeCategoryMetrics(res.DetailedResults)
    ELSE res.CategoryMetrics

\* rates[level] of a Go map: the zero value when the level is absent
RateAt(rates, level) == IF level \in DOMAIN rates THEN rates[level] ELSE <<0, 1>>

\* the drops between the levels 1, 2 and 3 that are both present
DropKeys(rates) ==
    {key \in {"level1_to_level2", "level1_to_level3", "level2_to_level3"} :
        CASE key = "level1_to_level2" -> 1 \in DOMAIN rates /\ 2 \in DOMAIN rates
          [] key = "level1_to_level3" -> 1 \in DOMAIN rates /\ 3 \in DOMAIN rates
          [] key = "level2_to_level3" -> 2 \in DOMAIN rates /\ 3 \in DOMAIN rates}

DropOf(rates, key) ==
    CASE key = "level1_to_level2" -> FracSub(rates[1], rates[2])
      [] key = "level1_to_level3" -> FracSub(rates[1], rates[3])
      [] key = "level2_to_level3" -> FracSub(rates[2], rates[3])

\* a pattern that knows a degradation between two levels only
PatternOfTwoLevels(rates, n) ==
    IF n >= 2
    THEN IF FracLess(RateAt(rates, 2), RateAt(rates, 1)) /\ n < 3
         THEN "expected_degradation"
         ELSE IF FracLess(RateAt(rates, 1), RateAt(rates, 2))
         THEN "anomaly_level2_better"
         ELSE "inconsistent"
    ELSE ""

\* the performance pattern, n = len(rates)
PatternOf(rates, n) ==
    IF n >= 2
    THEN IF FracLess(RateAt(rates, 2), RateAt(rates, 1))
            /\ (n < 3 \/ FracLess(RateAt(rates, 3), RateAt(rates, 2)))
         THEN "expected_degradation"
         ELSE IF FracLess(RateAt(rates, 1), RateAt(rates, 2))
         THEN "anomaly_level2_better"
         ELSE "inconsistent"
    ELSE ""

Analysis(rates) ==
    [level_rates |-> rates,
     difficulty_drops |-> [key \in DropKeys(rates) |-> DropOf(rates, key)],
     performance_pattern |-> PatternOf(rates, Cardinality(DOMAIN rates))]

\* Metrics.AnalyzeDifficultyProgression
AnalyzeDifficultyProgression(levelMetrics) ==
    Analysis([l \in DOMAIN levelMetrics |-> levelMetrics[l].ExactMatchRate])

(***************************************************************************)
(* The inputs of a run: the texts the agent or judge may answer with and   *)
(* the entries a dataset file may hold.                                    *)
(***************************************************************************)
\* FINAL ANSWER: The X.
GaiaExact ==
    <<"F","I","N","A","L"," ","A","N","S","W","E","R",":"," ","T","h","e"," ",
      "X",".">>

\* x y
GaiaLoose ==
    <<"x"," ","y">>

\* w
GaiaWrong ==
    <<"w">>

\* [{"name":"f","arguments":{"x":1}}]
BfclCallF ==
    <<"[","{","\"","n","a","m","e","\"",":","\"","f","\"",",","\"","a","r",
      "g","u","m","e","n","t","s","\"",":","{","\"","x","\"",":","1","}","}",
      "]">>

\* {"name":"g"}
BfclCallG ==
    <<"{","\"","n","a","m","e","\"",":","\"","g","\"","}">>

\* none
BfclProse ==
    <<"n","o","n","e">>

\* f(x=1)
PythonCallF ==
    <<"f","(","x","=","1",")">>

\* {"correctness":5,"clarity":4,"difficulty_match":4,"completeness":5}
JudgeGood ==
    <<"{","\"","c","o","r","r","e","c","t","n","e","s","s","\"",":","5",",",
      "\"","c","l","a","r","i","t","y","\"",":","4",",","\"","d","i","f","f",
      "i","c","u","l","t","y","_","m","a","t","c","h","\"",":","4",",","\"",
      "c","o","m","p","l","e","t","e","n","e","s","s","\"",":","5","}">>

\* a fenced json block holding {"correctness":1,"clarity":2}
JudgePoor ==
    <<"<backquote>","<backquote>","<backquote>","j","s","o","n","\n","{","\"",
      "c","o","r","r","e","c","t","n","e","s","s","\"",":","1",",","\"","c",
      "l","a","r","i","t","y","\"",":","2","}","\n","<backquote>",
      "<backquote>","<backquote>">>

\* n/a
JudgeProse ==
    <<"n","/","a">>

\* the responses an agent (or judge) call may return, by evaluator
Responses(kind) ==
    CASE kind = "gaia"  -> {GaiaExact, GaiaLoose, GaiaWrong, <<>>}
      [] kind = "bfcl"  -> {BfclCallF, BfclCallG, BfclProse}
      [] kind = "judge" -> {JudgeGood, JudgePoor, JudgeProse}

\* the entries of a dataset file, by evaluator: [Expected, Level, hasGT, GT].
\* Expected and Level are what parseItem reads from the entry; hasGT and GT
\* are the entry of the BFCL possible_answer file, if there is one.
Entry(expected, level, hasGT, gt) ==
    [Expected |-> expected, Level |-> level, hasGT |-> hasGT, GT |-> gt]

Entries(kind) ==
    CASE kind = "gaia" ->
           << Entry(JStr(<<"x">>), 1, FALSE, JNull),
              Entry(JStr(<<"t","h","e"," ","x"," ","y"," ","z">>), 2, FALSE, JNull),
              Entry(JNull, 0, FALSE, JNull) >>
      [] kind = "bfcl" ->
           << Entry(JNull, 0, TRUE,
                    JList(<< JMap(<< <<"f">> >>,
                                  << JMap(<< <<"x">> >>, << JList(<<JNum(1), JNum(2)>>) >>) >>) >>)),
              Entry(JNull, 0, TRUE, JStr(PythonCallF)),
              Entry(JNull, 0, FALSE, JNull) >>
      [] kind = "judge" ->
           << Entry(JStr(<<"x">>), 0, FALSE, JNull) >>

\* the ID parseItem gives the entry at index idx (0-based) of a file that
\* names no id: a prefix and the index
SampleID(idx) == <<"s", "_">> \o NatText(idx)

\* the category parseItem gives a sample
SampleCategory(kind, level) ==
    CASE kind = "gaia"  -> <<"l","e","v","e","l","_">> \o NatText(level)
      [] kind = "bfcl"  -> <<"s","i","m","p","l","e">>
      [] kind = "judge" -> <<>>

\* the file of n entries that starts with entry number first and goes round
\* the entries of its evaluator
FileEntries(kind, n, first) ==
    [k \in 1..n |-> Entries(kind)[((first + k - 2) % Len(Entries(kind))) + 1]]

(***************************************************************************)
(* The state of one Evaluate call and of one application of a text         *)
(* function.                                                               *)
(***************************************************************************)
VARIABLES
    evaluator,   \* which evaluator runs: "gaia", "bfcl" or "judge"
    dataset,     \* its Dataset: the file behind it, loaded, samples, groundTruth
    config,      \* the EvalConfig after ApplyOptions
    ctxDone,     \* the context given to Evaluate has been cancelled
    pc,          \* where Evaluate stands: "start", "loop", "call", "done", "idle"
    i,           \* the loop index
    total,       \* the local total
    result,      \* the EvalResult under construction
    evalCtx,     \* the context of the sample in progress
    ret,         \* what Evaluate returned
    trace,       \* the calls, results and progress callbacks so far, in order
    textOp,      \* the text function applied: "none" before
    textIn,      \* its argument (the prediction, for evaluateMatch)
    textExp,     \* the expected answer given to evaluateMatch
    textOut,     \* the text it returned
    matchOut,    \* what evaluateMatch returned: <<exact, partial>>
    callOp,      \* the BFCL or judge function applied: "none" before
    callIn,      \* its arguments, a record that names the function in f
    callOut,     \* what it returned
    ch,          \* the channel of Iterator: "nil" before the call, "open", "closed"
    producer,    \* the goroutine of Iterator: "none", "running", "done"
    sent,        \* the sends the goroutine has completed
    consumer,    \* the receiver: "idle", "receiving", "stopped", "finished"
    received,    \* the samples it has received, in order
    loads,       \* the calls of Load made on the dataset, one after the other
    loadRet      \* what the last of them returned: "" for nil, "none" before it

runVars == <<evaluator, dataset, config, ctxDone, pc, i, total, result, evalCtx, ret, trace>>

textVars == <<textOp, textIn, textExp, textOut, matchOut>>

callVars == <<callOp, callIn, callOut>>

iterVars == <<ch, producer, sent, consumer, received>>

loadVars == <<loads, loadRet>>

vars == <<runVars, textVars, callVars, iterVars, loadVars>>

\* a nil *MetricsSummary
NilSummary == [isNil |-> TRUE]

\* a nil *EvalResult; in the EvalResult Evaluate allocates the maps are
\* empty or nil (no key either way) and Metrics is nil
NilResult ==
    [isNil |-> TRUE, TotalSamples |-> 0, SuccessCount |-> 0,
     OverallAccuracy |-> <<0, 1>>, DetailedResults |-> <<>>,
     CategoryMetrics |-> <<>>, LevelMetrics |-> <<>>, Metrics |-> NilSummary]

\* the EvalResult Evaluate allocates after Load
NewEvalResult == [NilResult EXCEPT !.isNil = FALSE]

\* no sample in progress
NoCtx == [live |-> FALSE, timed |-> FALSE, elapsed |-> 0]

NotReturned == [returned |-> FALSE, result |-> NilResult, err |-> ""]

\* the samples and the ground truth a successful Load reads from the file
LoadedSamples(kind, entries) ==
    [k \in 1..Len(entries) |->
        Sample(SampleID(k - 1), entries[k].Expected, entries[k].Level,
               SampleCategory(kind, entries[k].Level))]

LoadedGroundTruth(entries) ==
    [id \in {SampleID(k - 1) : k \in {j \in 1..Len(entries) : entries[j].hasGT}} |->
        entries[CHOOSE k \in 1..Len(entries) : SampleID(k - 1) = id].GT]

\* Dataset.Load(ctx): [err, dataset].  A dataset already loaded returns nil.
\* A file that cannot be read fails; the loops over the lines return
\* ctx.Err() at the first line when ctx is cancelled; GAIA fails when it
\* has read no sample.
Load(d, cancelled) ==
    IF d.loaded THEN [err |-> "", dataset |-> d]
    ELSE IF d.file.err THEN [err |-> "cannot read the data", dataset |-> d]
    ELSE IF cancelled /\ d.file.entries # <<>> THEN [err |-> "context canceled", dataset |-> d]
    ELSE IF d.kind = "gaia" /\ d.file.entries = <<>> THEN [err |-> "no GAIA data", dataset |-> d]
    ELSE [err |-> "",
          dataset |-> [d EXCEPT !.loaded = TRUE,
                                !.samples = LoadedSamples(d.kind, d.file.entries),
                                !.groundTruth = IF d.kind = "bfcl"
                                                THEN LoadedGroundTruth(d.file.entries)
                                                ELSE <<>>]]

\* Dataset.Get(index): [err, sample]; the BFCL dataset attaches the ground
\* truth of the sample's ID
WithGroundTruth(d, sample) ==
    [err |-> "",
     sample |-> IF d.kind = "bfcl" /\ sample.ID \in DOMAIN d.groundTruth
                THEN [sample EXCEPT !.Expected = d.groundTruth[sample.ID]]
                ELSE sample]

Get(d, index) ==
    IF index < 0 \/ index >= Len(d.samples)
    THEN [err |-> "index out of range", sample |-> Sample(<<>>, JNull, 0, <<>>)]
    ELSE WithGroundTruth(d, d.samples[index + 1])

\* a total that ignores MaxSamples
TotalUncapped(len, maxSamples) == len

\* total := dataset.Len(), capped by MaxSamples
Total(len, maxSamples) ==
    IF maxSamples > 0 /\ maxSamples < len THEN maxSamples ELSE len

(***************************************************************************)
(* Evaluate: one action per step of the loop.  A step between two points   *)
(* where the context may be cancelled or time may pass is one action.      *)
(***************************************************************************)
\* the options a run may be given: WithMaxSamples(0..MaxCap),
\* WithTimeout(0 or TimeoutTicks), with or without WithProgressCallback
MaxCap == 2

TimeoutTicks == 1

Configs ==
    [MaxSamples : 0..MaxCap, Timeout : {0, TimeoutTicks}, ProgressCallback : BOOLEAN]

Files(kind) ==
    {[err |-> TRUE, entries |-> <<>>]}
    \cup {[err |-> FALSE, entries |-> FileEntries(kind, n, first)] :
             n \in 0..MaxDataset, first \in 1..Len(Entries(kind))}

\* an entry of trace: the agent (or judge) is called for sample i ("call"),
\* the result of sample i is appended ("result", with how the sample ended),
\* the progress callback is called with (done, total) ("callback");
\* cancelled tells whether the run's context was done by then
Event(ev, idx, failure, done, tot) ==
    [ev |-> ev, i |-> idx, failure |-> failure, done |-> done, total |-> tot,
     cancelled |-> ctxDone]

\* the text functions are not in use during a run
TextIdle ==
    /\ textOp = "off"
    /\ textIn = <<>>
    /\ textExp = <<>>
    /\ textOut = <<>>
    /\ matchOut = <<FALSE, FALSE>>

\* nor are the functions of the BFCL evaluator and of the judge
CallIdle ==
    /\ callOp = "off"
    /\ callIn = [f |-> "none"]
    /\ callOut = <<>>

\* Iterator has not been called, nor Load outside Evaluate
IterIdle ==
    /\ ch = "nil"
    /\ producer = "none"
    /\ sent = 0
    /\ consumer = "idle"
    /\ received = <<>>
    /\ loads = 0
    /\ loadRet = "none"

Init ==
    /\ evaluator \in Evaluators
    /\ \E f \in Files(evaluator) :
          dataset = [kind |-> evaluator, file |-> f, loaded |-> FALSE,
                     samples |-> <<>>, groundTruth |-> <<>>]
    /\ config \in Configs
    /\ ctxDone = FALSE
    /\ pc = "start"
    /\ i = 0
    /\ total = 0
    /\ result = NilResult
    /\ evalCtx = NoCtx
    /\ ret = NotReturned
    /\ trace = <<>>
    /\ TextIdle
    /\ CallIdle
    /\ IterIdle

\* Load fails and Evaluate returns an EvalResult with the error
LoadFailsWithResult ==
    /\ pc = "start"
    /\ Load(dataset, ctxDone).err # ""
    /\ dataset' = Load(dataset, ctxDone).dataset
    /\ ret' = [returned |-> TRUE, result |-> NewEvalResult,
               err |-> "loading the dataset failed"]
    /\ pc' = "done"
    /\ UNCHANGED <<evaluator, config, ctxDone, i, total, result, evalCtx, trace, textVars, callVars, iterVars, loadVars>>

\* Evaluate up to the loop: Load fails and Evaluate returns (nil, err) ...
LoadFails ==
    /\ pc = "start"
    /\ Load(dataset, ctxDone).err # ""
    /\ dataset' = Load(dataset, ctxDone).dataset
    /\ ret' = [returned |-> TRUE, result |-> NilResult,
               err |-> "loading the dataset failed"]
    /\ pc' = "done"
    /\ UNCHANGED <<evaluator, config, ctxDone, i, total, result, evalCtx, trace, textVars, callVars, iterVars, loadVars>>

\* ... or Load succeeds, the result is allocated and total computed
LoadSucceeds ==
    /\ pc = "start"
    /\ Load(dataset, ctxDone).err = ""
    /\ dataset' = Load(dataset, ctxDone).dataset
    /\ total' = Total(Len(dataset'.samples), config.MaxSamples)
    /\ result' = [NewEvalResult EXCEPT !.TotalSamples = total']
    /\ i' = 0
    /\ pc' = "loop"
    /\ UNCHANGED <<evaluator, config, ctxDone, evalCtx, ret, trace, textVars, callVars, iterVars, loadVars>>

\* the select at the head of the loop body finds ctx.Done() closed:
\* return result, ctx.Err()
ReturnCancelled ==
    /\ pc = "loop"
    /\ i < total
    /\ ctxDone
    /\ ret' = [returned |-> TRUE, result |-> result, err |-> "context canceled"]
    /\ pc' = "done"
    /\ UNCHANGED <<evaluator, dataset, config, ctxDone, i, total, result, evalCtx, trace, textVars, callVars, iterVars, loadVars>>

\* a context made from the context of the sample before
WithTimeoutOfLast(timeout) ==
    [live |-> TRUE, timed |-> timeout > 0, elapsed |-> evalCtx.elapsed]

\* evalCtx of a sample: ctx itself, or context.WithTimeout(ctx, Timeout) when
\* Timeout > 0, whose deadline is Timeout from now
WithTimeout(timeout) ==
    [live |-> TRUE, timed |-> timeout > 0, elapsed |-> 0]

\* the select with the context of the run ignored
BeginSampleUnchecked ==
    /\ pc = "loop"
    /\ i < total
    /\ IF Get(dataset, i).err # ""
       THEN /\ i' = i + 1
            /\ UNCHANGED <<pc, evalCtx, trace>>
       ELSE /\ evalCtx' = WithTimeout(config.Timeout)
            /\ trace' = Append(trace, Event("call", i, "none", 0, 0))
            /\ pc' = "call"
            /\ i' = i
    /\ UNCHANGED <<evaluator, dataset, config, ctxDone, total, result, ret, textVars, callVars, iterVars, loadVars>>

\* the context is not done: Get the sample (on its error the loop continues
\* with the next index), make evalCtx, and EvaluateSample calls the agent
BeginSample ==
    /\ pc = "loop"
    /\ i < total
    /\ ~ctxDone
    /\ IF Get(dataset, i).err # ""
       THEN /\ i' = i + 1
            /\ UNCHANGED <<pc, evalCtx, trace>>
       ELSE /\ evalCtx' = WithTimeout(config.Timeout)
            /\ trace' = Append(trace, Event("call", i, "none", 0, 0))
            /\ pc' = "call"
            /\ i' = i
    /\ UNCHANGED <<evaluator, dataset, config, ctxDone, total, result, ret, textVars, callVars, iterVars, loadVars>>

\* the callback called with the index of the sample
ProgressEventsFromZero(idx, tot) ==
    IF config.ProgressCallback
    THEN <<Event("callback", idx, "none", idx, tot)>>
    ELSE <<>>

\* config.ProgressCallback(i+1, total), if a callback is configured
ProgressEvents(idx, tot) ==
    IF config.ProgressCallback
    THEN <<Event("callback", idx, "none", idx + 1, tot)>>
    ELSE <<>>

\* the rest of the loop body once EvaluateSample has returned: the result is
\* appended and counted, the callback called; the context of the sample is
\* left behind
RecordSample(sampleResult, failure) ==
    /\ result' = [result EXCEPT
                     !.DetailedResults = Append(@, sampleResult),
                     !.SuccessCount = IF sampleResult.Success THEN @ + 1 ELSE @]
    /\ trace' = Append(trace, Event("result", i, failure, 0, 0)) \o ProgressEvents(i, total)
    /\ i' = i + 1
    /\ evalCtx' = [evalCtx EXCEPT !.live = FALSE]
    /\ pc' = "loop"
    /\ UNCHANGED <<evaluator, dataset, config, ctxDone, total, ret, textVars, callVars, iterVars, loadVars>>

ScoreSample(sample, out) ==
    RecordSample(EvaluateSample(evaluator, dataset.groundTruth, sample, out),
                 SampleFailure(evaluator, dataset.groundTruth, sample, out))

\* the loop body from the return of the agent call, out, on
CompleteSample(out) == ScoreSample(Get(dataset, i).sample, out)

\* evalCtx is done by its deadline
EvalCtxExpired == evalCtx.timed /\ evalCtx.elapsed >= config.Timeout

\* the agent answers before evalCtx is done (the agent and the judge honour
\* the context they are called with: once it is done the call returns its
\* error)
AgentReturns ==
    /\ pc = "call"
    /\ ~ctxDone
    /\ ~EvalCtxExpired
    /\ \E r \in Responses(evaluator) :
          CompleteSample([cause |-> "ok", err |-> "", response |-> r])

\* the agent fails by itself
AgentFails ==
    /\ pc = "call"
    /\ ~ctxDone
    /\ ~EvalCtxExpired
    /\ CompleteSample([cause |-> "agent", err |-> "agent error", response |-> <<>>])

\* the deadline of evalCtx passes during the call and the call returns its error
AgentTimesOut ==
    /\ pc = "call"
    /\ ~ctxDone
    /\ EvalCtxExpired
    /\ CompleteSample([cause |-> "timeout", err |-> "context deadline exceeded",
                       response |-> <<>>])

\* the run's context is cancelled during the call and the call returns its error
AgentCancelled ==
    /\ pc = "call"
    /\ ctxDone
    /\ CompleteSample([cause |-> "cancelled", err |-> "context canceled",
                       response |-> <<>>])

\* time passes during the call
Tick ==
    /\ pc = "call"
    /\ evalCtx.timed
    /\ ~EvalCtxExpired
    /\ evalCtx' = [evalCtx EXCEPT !.elapsed = @ + 1]
    /\ UNCHANGED <<evaluator, dataset, config, ctxDone, pc, i, total, result, ret, trace, textVars, callVars, iterVars, loadVars>>

\* the caller cancels the context of the run
Cancel ==
    /\ pc \in {"start", "loop", "call"}
    /\ ~ctxDone
    /\ ctxDone' = TRUE
    /\ UNCHANGED <<evaluator, dataset, config, pc, i, total, result, evalCtx, ret, trace, textVars, callVars, iterVars, loadVars>>

\* the loop is over: the accuracy, the metrics by level or category and the
\* summary are computed and Evaluate returns (result, nil)
Finish ==
    /\ pc = "loop"
    /\ i >= total
    /\ result' = [result EXCEPT
                     !.OverallAccuracy = IF result.TotalSamples > 0
                                         THEN <<result.SuccessCount, result.TotalSamples>>
                                         ELSE @,
                     !.LevelMetrics = LevelMetricsAtEnd(evaluator, result),
                     !.CategoryMetrics = CategoryMetricsAtEnd(evaluator, result),
                     !.Metrics = ComputeMetrics(evaluator, result.DetailedResults)]
    /\ ret' = [returned |-> TRUE, result |-> result', err |-> ""]
    /\ pc' = "done"
    /\ UNCHANGED <<evaluator, dataset, config, ctxDone, i, total, evalCtx, trace, textVars, callVars, iterVars, loadVars>>

Next ==
    \/ LoadFails
    \/ LoadSucceeds
    \/ ReturnCancelled
    \/ BeginSample
    \/ AgentReturns
    \/ AgentFails
    \/ AgentTimesOut
    \/ AgentCancelled
    \/ Tick
    \/ Cancel
    \/ Finish

Spec == Init /\ [][Next]_vars

(***************************************************************************)
(* The GAIA text functions applied to one input each: the input is drawn   *)
(* at the start and one action applies one function to it.                 *)
(***************************************************************************)
\* the pieces the answer texts are assembled from
Vocabulary ==
    { <<"T","h","e"," ">>, <<"x">>, <<" ">>, <<".">>, <<"$">>, <<",">>, <<"5">>,
      <<"0","0","0">> }

\* the pieces of the pairs of answers given to evaluateMatch, and how many
\* pieces each answer of a pair has at most
MatchVocabulary == { <<"T","h","e"," ">>, <<"x">>, <<" ">>, <<"y">>, <<".">> }

MaxMatchPieces == 2

\* the texts of at most n pieces of vocab
RECURSIVE PieceTexts(_, _)
PieceTexts(vocab, n) ==
    IF n = 0 THEN {<<>>}
    ELSE PieceTexts(vocab, n - 1)
         \cup {t \o p : t \in PieceTexts(vocab, n - 1), p \in vocab}

\* the expected answer of a times the word x and then b times the word y
Phrase(a, b) == JoinSpace([k \in 1..(a + b) |-> IF k <= a THEN <<"x">> ELSE <<"y">>])

\* the phrases of at most n words
Phrases(n) == {Phrase(ab[1], ab[2]) : ab \in {c \in (0..n) \X (0..n) : c[1] + c[2] <= n}}

\* the predictions scored against the phrases
MatchPredictions == { <<"x"," ","z">>, <<"y">>, <<"y"," ","x">>, <<>> }

\* the pairs <<textIn, textExp>> a behaviour may start from
TextInputs ==
    (PieceTexts(Vocabulary, MaxPieces) \X {<<>>})
    \cup (MatchPredictions \X Phrases(MaxWords))
    \cup (PieceTexts(MatchVocabulary, MaxMatchPieces)
          \X PieceTexts(MatchVocabulary, MaxMatchPieces))

\* no Evaluate call is in progress
RunIdle ==
    /\ evaluator = "gaia"
    /\ dataset = [kind |-> "gaia", file |-> [err |-> FALSE, entries |-> <<>>],
                  loaded |-> FALSE, samples |-> <<>>, groundTruth |-> <<>>]
    /\ config = [MaxSamples |-> 0, Timeout |-> 0, ProgressCallback |-> FALSE]
    /\ ctxDone = FALSE
    /\ pc = "idle"
    /\ i = 0
    /\ total = 0
    /\ result = NilResult
    /\ evalCtx = NoCtx
    /\ ret = NotReturned
    /\ trace = <<>>
    /\ IterIdle

InitText ==
    /\ RunIdle
    /\ CallIdle
    /\ textOp = "none"
    /\ \E in \in TextInputs : textIn = in[1] /\ textExp = in[2]
    /\ textOut = <<>>
    /\ matchOut = <<FALSE, FALSE>>

\* normalizeAnswer(textIn)
ApplyNormalizeAnswer ==
    /\ textOp = "none"
    /\ textOp' = "normalizeAnswer"
    /\ textOut' = normalizeAnswer(textIn)
    /\ UNCHANGED <<runVars, callVars, iterVars, loadVars, textIn, textExp, matchOut>>

\* removeNumberCommas(textIn)
ApplyRemoveNumberCommas ==
    /\ textOp = "none"
    /\ textOp' = "removeNumberCommas"
    /\ textOut' = removeNumberCommas(textIn)
    /\ UNCHANGED <<runVars, callVars, iterVars, loadVars, textIn, textExp, matchOut>>

\* evaluateMatch(textIn, textExp)
ApplyEvaluateMatch ==
    /\ textOp = "none"
    /\ textOp' = "evaluateMatch"
    /\ matchOut' = evaluateMatch(textIn, textExp)
    /\ UNCHANGED <<runVars, callVars, iterVars, loadVars, textIn, textExp, textOut>>

NextText ==
    \/ ApplyNormalizeAnswer
    \/ ApplyRemoveNumberCommas
    \/ ApplyEvaluateMatch

SpecText == InitText /\ [][NextText]_vars

(***************************************************************************)
(* The functions of the BFCL evaluator and of the judge applied to one     *)
(* input each: the input is drawn at the start, callIn.f names the         *)
(* function it is for, and one action applies that function to it.         *)
(***************************************************************************)
\* the parameters a call of the inputs has at most
MaxParams == 2

ParamNames == << <<"x">>, <<"y">>, <<"z">>, <<"w">> >>

\* the values of the predicted parameters, and those of the expected ones
PredictedValues == {JNum(1), JStr(<<"1",".","0">>), JStr(<<"a">>), JStr(<<"A">>)}

ExpectedValues == {JNum(1), JStr(<<"a">>)}

\* the arguments that give the k-th parameter the value choice[k], and no
\* value where choice[k] is null
Chosen(choice) == SelectSeq([k \in 1..Len(choice) |-> k], LAMBDA k : choice[k] # JNull)

ArgsOf(choice) ==
    JMap([k \in 1..Len(Chosen(choice)) |-> ParamNames[Chosen(choice)[k]]],
         [k \in 1..Len(Chosen(choice)) |-> choice[Chosen(choice)[k]]])

ArgMaps(values, n) == {ArgsOf(choice) : choice \in [1..n -> values \cup {JNull}]}

\* the pairs of calls given to compareFunctionCall
CompareInputs ==
    {[f |-> "compareFunctionCall",
      predicted |-> FunctionCall(name, pa), expected |-> FunctionCall(<<"f">>, ea)] :
        name \in {<<"f">>, <<"F">>, <<"g">>},
        pa \in ArgMaps(PredictedValues, MaxParams),
        ea \in ArgMaps(ExpectedValues, MaxParams)}

\* the calls of the lists given to evaluateMatch: f with three parameters
\* or with the first of them, and g without parameters
Call(name, n) == FunctionCall(name, JMap(SubSeq(ParamNames, 1, n), [k \in 1..n |-> JNum(1)]))

ExpectedPool == {Call(<<"f">>, 3), Call(<<"g">>, 0)}

PredictedPool == {Call(<<"f">>, 1), Call(<<"f">>, 3), Call(<<"g">>, 0)}

\* the calls an expected list and a predicted list have at most
MaxExpected == 3

MaxPredicted == 2

\* the lists of at most n elements of pool
RECURSIVE ListsOf(_, _)
ListsOf(pool, n) ==
    IF n = 0 THEN {<<>>}
    ELSE ListsOf(pool, n - 1) \cup {Append(l, c) : l \in ListsOf(pool, n - 1), c \in pool}

\* a call and a list of calls as the ground truth of a dataset holds them
TruthOf(call) ==
    JMap(<< <<"n","a","m","e">>, <<"a","r","g","u","m","e","n","t","s">> >>,
         <<JStr(call.Name), call.Arguments>>)

TruthList(calls) == JList([k \in 1..Len(calls) |-> TruthOf(calls[k])])

\* the predicted calls and the ground truth given to evaluateMatch
MatchInputs ==
    {[f |-> "evaluateMatch", predicted |-> p, expected |-> e, groundTruth |-> TruthList(e)] :
        p \in ListsOf(PredictedPool, MaxPredicted),
        e \in ListsOf(ExpectedPool, MaxExpected)}

\* the JSON text of a value
RECURSIVE JSONText(_)
MemberText(v, k) == <<"\"">> \o v.keys[k] \o <<"\"", ":">> \o JSONText(v.items[k])

JSONText(v) ==
    CASE v.t = "null" -> <<"n","u","l","l">>
      [] v.t = "bool" -> IF v.n = 1 THEN <<"t","r","u","e">> ELSE <<"f","a","l","s","e">>
      [] v.t = "num"  -> IF v.n < 0 THEN <<"-">> \o NatText(0 - v.n) ELSE NatText(v.n)
      [] v.t = "str"  -> <<"\"">> \o v.s \o <<"\"">>
      [] v.t = "list" -> <<"[">> \o JoinTexts([k \in 1..Len(v.items) |-> JSONText(v.items[k])], <<",">>) \o <<"]">>
      [] v.t = "map"  -> <<"{">> \o JoinTexts([k \in 1..Len(v.keys) |-> MemberText(v, k)], <<",">>) \o <<"}">>

\* the values of the parameters of the function-name-keyed form
KeyedValues ==
    {JNum(1), JList(<<JNum(1), JNum(2)>>), JList(<<JStr(<<"a">>)>>), JList(<<>>)}

\* what the key of a function holds: its parameters, or something else
KeyedParams == ArgMaps(KeyedValues, MaxParams) \cup {JNum(5)}

\* the ground truths of the function-name-keyed form, of one and two keys
KeyedTruths ==
    {JMap(<< <<"f">> >>, <<p>>) : p \in KeyedParams}
    \cup {JMap(<< <<"f">>, <<"g">> >>, <<p, q>>) :
            p \in KeyedParams,
            q \in {JMap(<<>>, <<>>), JMap(<< <<"x">> >>, <<JList(<<JNum(2)>>)>>)}}

\* the ground truths that are a list or an object
PlainTruths ==
    KeyedTruths
    \cup {JList(<<g>>) : g \in KeyedTruths}
    \cup {TruthOf(c) : c \in ExpectedPool}
    \cup {TruthList(l) : l \in ListsOf(ExpectedPool, MaxExpected)}

\* calls in the textual form, each with the object of the same call:
\* f(x=1), f(), g(x=1, y="a"), f(x='a') and g(x=a)
TextTruths ==
    { <<<<"f","(","x","=","1",")">>,
        TruthOf(FunctionCall(<<"f">>, JMap(<< <<"x">> >>, <<JNum(1)>>)))>>,
      <<<<"f","(",")">>,
        TruthOf(FunctionCall(<<"f">>, JMap(<<>>, <<>>)))>>,
      <<<<"g","(","x","=","1",","," ","y","=","\"","a","\"",")">>,
        TruthOf(FunctionCall(<<"g">>, JMap(<< <<"x">>, <<"y">> >>, <<JNum(1), JStr(<<"a">>)>>)))>>,
      <<<<"f","(","x","=","'","a","'",")">>,
        TruthOf(FunctionCall(<<"f">>, JMap(<< <<"x">> >>, <<JStr(<<"a">>)>>)))>>,
      <<<<"g","(","x","=","a",")">>,
        TruthOf(FunctionCall(<<"g">>, JMap(<< <<"x">> >>, <<JStr(<<"a">>)>>)))>> }

\* how deep the lists around a string of the ground truth are at most
MaxDepth == 2

\* the value v inside d lists
RECURSIVE Nested(_, _)
Nested(v, d) == IF d = 0 THEN v ELSE JList(<<Nested(v, d - 1)>>)

\* the ground truths given to parseGroundTruth.  gt is the ground truth, form
\* tells how it is written, and plain is the same ground truth written as a
\* list or an object.
TruthInput(gt, form, plain) == [f |-> "parseGroundTruth", gt |-> gt, form |-> form, plain |-> plain]

TruthInputs ==
    {TruthInput(g, "plain", g) : g \in PlainTruths}
    \cup {TruthInput(JStr(JSONText(g)), "json", g) : g \in PlainTruths}
    \cup {TruthInput(JList(<<JStr(JSONText(g))>>), "json in list", g) : g \in PlainTruths}
    \cup {TruthInput(JStr(t[1]), "text", t[2]) : t \in TextTruths}
    \cup {TruthInput(Nested(JStr(t[1]), d), "text in list", t[2]) :
            t \in TextTruths, d \in 1..MaxDepth}

\* the objects of the responses: name and arguments are there or not (not
\* when the choice is FALSE), and of the right type or not
NameChoices == {JBool(FALSE), JStr(<<"f">>), JStr(<<>>), JNum(1)}

\* a text inside a fenced code block
Fenced(content) == Fence \o content \o Fence

FencedContents == {<<"{","}">>, <<"[","{","}","]">>, <<"[","]">>, <<"n","u","l","l">>}

ArgumentChoices ==
    {JBool(FALSE), JNull, JMap(<< <<"x">> >>, <<JNum(1)>>)}
    \cup {JStr(Fenced(c)) : c \in FencedContents}

Member1(key, v) == IF v = JBool(FALSE) THEN <<>> ELSE <<key>>

Item1(v) == IF v = JBool(FALSE) THEN <<>> ELSE <<v>>

CallObject(name, args) ==
    JMap(Member1(<<"n","a","m","e">>, name) \o Member1(<<"a","r","g","u","m","e","n","t","s">>, args),
         Item1(name) \o Item1(args))

CallObjects == {CallObject(n, a) : n \in NameChoices, a \in ArgumentChoices}

\* the objects that follow the first one in a list of a response
Fillers == {CallObject(JStr(<<"g">>), JBool(FALSE)), CallObject(JBool(FALSE), JBool(FALSE))}

\* the objects a list of a response has at most
MaxCalls == 2

\* what a response says: one object, or a list of objects
ResponseValues ==
    CallObjects
    \cup {JList(<<o>> \o l) : o \in CallObjects, l \in ListsOf(Fillers, MaxCalls - 1)}

\* the responses given to extractFunctionCalls: the JSON text alone, after
\* some words, and in a fenced code block; no response, and words only
ExtractInputs ==
    {[f |-> "extractFunctionCalls", response |-> r] :
        r \in {JSONText(v) : v \in ResponseValues}
              \cup {<<"s","e","e"," ">> \o JSONText(v) : v \in ResponseValues}
              \cup {Fence \o <<"j","s","o","n","\n">> \o JSONText(v) \o <<"\n">> \o Fence :
                      v \in ResponseValues}
              \cup {<<>>, BfclProse}}

\* the replies of the judge: objects in which a field is not there when its
\* choice is null; correctness is also a number outside 1..5 or a string
RubricKeys ==
    << <<"c","o","r","r","e","c","t","n","e","s","s">>,
       <<"c","l","a","r","i","t","y">>,
       <<"d","i","f","f","i","c","u","l","t","y","_","m","a","t","c","h">>,
       <<"c","o","m","p","l","e","t","e","n","e","s","s">>,
       <<"c","o","m","m","e","n","t","s">>,
       <<"t","o","t","a","l","_","s","c","o","r","e">> >>

RubricChoices ==
    {JNull, JNum(0 - 1), JNum(0), JNum(2), JNum(5), JNum(9), JStr(<<"5">>)}
    \X {JNull, JNum(2), JNum(5)}
    \X {JNull, JNum(3)}
    \X {JNull, JNum(4), JNum(5)}
    \X {JNull, JStr(<<"o","k">>)}
    \X {JNull, JNum(1)}

RubricObject(choice) ==
    JMap([k \in 1..Len(Chosen(choice)) |-> RubricKeys[Chosen(choice)[k]]],
         [k \in 1..Len(Chosen(choice)) |-> choice[Chosen(choice)[k]]])

\* the object alone, in a fenced code block after some words, and after some
\* words without a block; a list, null, words only and nothing
JudgeReplies ==
    {JSONText(RubricObject(c)) : c \in RubricChoices}
    \cup {<<"o","k"," ">> \o Fence \o <<"j","s","o","n","\n">> \o JSONText(RubricObject(c)) \o <<"\n">> \o Fence :
            c \in RubricChoices}
    \cup {<<"o","k"," ">> \o JSONText(RubricObject(c)) : c \in RubricChoices}
    \cup {<<"[","5","]">>, <<"n","u","l","l">>, JudgeProse, <<>>}

\* the replies given to parseJudgeResponse and to EvaluateSample of the judge
JudgeInputs ==
    {[f |-> fn, response |-> r] :
        fn \in {"parseJudgeResponse", "judgeEvaluateSample"}, r \in JudgeReplies}

CallInputs ==
    CompareInputs \cup MatchInputs \cup TruthInputs \cup ExtractInputs \cup JudgeInputs

InitCalls ==
    /\ RunIdle
    /\ textOp = "off"
    /\ textIn = <<>>
    /\ textExp = <<>>
    /\ textOut = <<>>
    /\ matchOut = <<FALSE, FALSE>>
    /\ callOp = "none"
    /\ callIn \in CallInputs
    /\ callOut = <<>>

\* compareFunctionCall(callIn.predicted, callIn.expected)
ApplyCompareFunctionCall ==
    /\ callOp = "none"
    /\ callIn.f = "compareFunctionCall"
    /\ callOp' = "done"
    /\ callOut' = compareFunctionCall(callIn.predicted, callIn.expected)
    /\ UNCHANGED <<runVars, textVars, iterVars, loadVars, callIn>>

\* evaluateMatch(callIn.predicted, callIn.groundTruth)
ApplyBfclEvaluateMatch ==
    /\ callOp = "none"
    /\ callIn.f = "evaluateMatch"
    /\ callOp' = "done"
    /\ callOut' = bfclEvaluateMatch(callIn.predicted, callIn.groundTruth)
    /\ UNCHANGED <<runVars, textVars, iterVars, loadVars, callIn>>

\* parseGroundTruth(callIn.gt)
ApplyParseGroundTruth ==
    /\ callOp = "none"
    /\ callIn.f = "parseGroundTruth"
    /\ callOp' = "done"
    /\ callOut' = parseGroundTruth(callIn.gt)
    /\ UNCHANGED <<runVars, textVars, iterVars, loadVars, callIn>>

\* extractFunctionCalls(callIn.response)
ApplyExtractFunctionCalls ==
    /\ callOp = "none"
    /\ callIn.f = "extractFunctionCalls"
    /\ callOp' = "done"
    /\ callOut' = extractFunctionCalls(callIn.response)
    /\ UNCHANGED <<runVars, textVars, iterVars, loadVars, callIn>>

\* parseJudgeResponse(callIn.response)
ApplyParseJudgeResponse ==
    /\ callOp = "none"
    /\ callIn.f = "parseJudgeResponse"
    /\ callOp' = "done"
    /\ callOut' = parseJudgeResponse(callIn.response)
    /\ UNCHANGED <<runVars, textVars, iterVars, loadVars, callIn>>

\* EvaluateSample of the judge, whose model answers callIn.response
ApplyJudgeEvaluateSample ==
    /\ callOp = "none"
    /\ callIn.f = "judgeEvaluateSample"
    /\ callOp' = "done"
    /\ callOut' = judgeEvaluateSample(Sample(<<"s">>, JNull, 0, "generated"),
                                      [cause |-> "ok", err |-> "", response |-> callIn.response])
    /\ UNCHANGED <<runVars, textVars, iterVars, loadVars, callIn>>

NextCalls ==
    \/ ApplyCompareFunctionCall
    \/ ApplyBfclEvaluateMatch
    \/ ApplyParseGroundTruth
    \/ ApplyExtractFunctionCalls
    \/ ApplyParseJudgeResponse
    \/ ApplyJudgeEvaluateSample

SpecCalls == InitCalls /\ [][NextCalls]_vars


(***************************************************************************)
(* The metrics applied to lists of sample results and to level maps.       *)
(***************************************************************************)
\* the results a list given to Compute has at most
MaxResults == 3

\* the results a level of a level map has at most
MaxTotal == 2

\* a GAIA result as EvaluateSample leaves it, or as a caller builds it
GaiaResult(level, success, partial) ==
    [NewSampleResult(Sample(<<"s">>, JStr(<<"X">>), level, "gaia")) EXCEPT
        !.Success = success,
        !.PartialSuccess = partial,
        !.Score = IF success THEN <<1, 1>> ELSE IF partial THEN <<1, 2>> ELSE <<0, 1>>]

GaiaResults ==
    {GaiaResult(level, s, p) : level \in 0..2, s \in BOOLEAN, p \in BOOLEAN}
    \cup {[GaiaResult(0, FALSE, FALSE) EXCEPT !.Error = "agent failed"]}

\* the BFCL results of one agent failure and of the samples whose predicted
\* and expected calls are these
ScoredPairs ==
    {<<p, e>> : p \in {<<>>, <<Call(<<"f">>, 3)>>, <<Call(<<"g">>, 0)>>},
                e \in {<<>>, <<Call(<<"f">>, 3)>>, <<Call(<<"f">>, 3), Call(<<"f">>, 3)>>,
                        <<Call(<<"f">>, 1), Call(<<"f">>, 3)>>}}

BfclResult(predicted, expected) ==
    BfclMatched([NewSampleResult(Sample(<<"s">>, TruthList(expected), 0, "simple"))
                    EXCEPT !.Score = Zero64],
                bfclEvaluateMatch(predicted, TruthList(expected)))

BfclResults ==
    {BfclResult(pe[1], pe[2]) : pe \in ScoredPairs}
    \cup {[NewSampleResult(Sample(<<"s">>, JNull, 0, "simple")) EXCEPT
              !.Score = Zero64, !.Error = "agent failed"]}

\* the level maps given to AnalyzeDifficultyProgression: any of the levels
\* 1, 2 and 3, each with its results and its exact matches
LevelEntry(level, n, exact) ==
    WithRates([NewLevelMetrics(level) EXCEPT !.Total = n, !.ExactMatches = exact,
                                             !.PartialMatches = exact])

LevelEntries(level) ==
    {LevelEntry(level, n, exact) : n \in 1..MaxTotal, exact \in 0..MaxTotal}

LevelMaps ==
    UNION {[present -> UNION {LevelEntries(l) : l \in present}] : present \in SUBSET (1..3)}

MetricsInputs ==
    {[f |-> fn, results |-> rs] :
        fn \in {"gaia.Compute", "ComputeLevelMetrics", "computeLevelMetrics"},
        rs \in ListsOf(GaiaResults, MaxResults)}
    \cup {[f |-> "bfcl.Compute", results |-> rs] : rs \in ListsOf(BfclResults, MaxResults)}
    \cup {[f |-> "AnalyzeDifficultyProgression", levelMetrics |-> m] :
             m \in {lm \in LevelMaps :
                       \A l \in DOMAIN lm : lm[l].Level = l /\ lm[l].ExactMatches <= lm[l].Total}}

InitMetrics ==
    /\ RunIdle
    /\ TextIdle
    /\ callOp = "none"
    /\ callIn \in MetricsInputs
    /\ callOut = <<>>

\* Compute(callIn.results) of the GAIA metrics
ApplyGaiaCompute ==
    /\ callOp = "none"
    /\ callIn.f = "gaia.Compute"
    /\ callOp' = "done"
    /\ callOut' = gaiaCompute(callIn.results)
    /\ UNCHANGED <<runVars, textVars, iterVars, loadVars, callIn>>

\* Compute(callIn.results) of the BFCL metrics
ApplyBfclCompute ==
    /\ callOp = "none"
    /\ callIn.f = "bfcl.Compute"
    /\ callOp' = "done"
    /\ callOut' = bfclCompute(callIn.results)
    /\ UNCHANGED <<runVars, textVars, iterVars, loadVars, callIn>>

\* ComputeLevelMetrics(callIn.results) of the GAIA metrics
ApplyComputeLevelMetrics ==
    /\ callOp = "none"
    /\ callIn.f = "ComputeLevelMetrics"
    /\ callOp' = "done"
    /\ callOut' = ComputeLevelMetrics(callIn.results)
    /\ UNCHANGED <<runVars, textVars, iterVars, loadVars, callIn>>

\* computeLevelMetrics of the GAIA evaluator on a result whose
\* DetailedResults are callIn.results
ApplyEvaluatorLevelMetrics ==
    /\ callOp = "none"
    /\ callIn.f = "computeLevelMetrics"
    /\ callOp' = "done"
    /\ callOut' = computeLevelMetrics(callIn.results)
    /\ UNCHANGED <<runVars, textVars, iterVars, loadVars, callIn>>

\* AnalyzeDifficultyProgression(callIn.levelMetrics)
ApplyAnalyzeDifficultyProgression ==
    /\ callOp = "none"
    /\ callIn.f = "AnalyzeDifficultyProgression"
    /\ callOp' = "done"
    /\ callOut' = AnalyzeDifficultyProgression(callIn.levelMetrics)
    /\ UNCHANGED <<runVars, textVars, iterVars, loadVars, callIn>>

NextMetrics ==
    \/ ApplyGaiaCompute
    \/ ApplyBfclCompute
    \/ ApplyComputeLevelMetrics
    \/ ApplyEvaluatorLevelMetrics
    \/ ApplyAnalyzeDifficultyProgression

SpecMetrics == InitMetrics /\ [][NextMetrics]_vars

(***************************************************************************)
(* Dataset.Iterator: the goroutine that sends the samples on an unbuffered *)
(* channel, and a receiver.  A send on an unbuffered channel completes     *)
(* together with the receive that takes its value.                         *)
(***************************************************************************)
\* the datasets Iterator is called on: every file behind every kind of
\* dataset, after a Load that succeeded or never loaded
NewDatasets ==
    UNION {{[kind |-> k, file |-> f, loaded |-> FALSE, samples |-> <<>>,
             groundTruth |-> <<>>] : f \in Files(k)} : k \in Evaluators}

IterDatasets == {Load(d, FALSE).dataset : d \in NewDatasets}

InitIterator ==
    /\ dataset \in IterDatasets
    /\ evaluator = dataset.kind
    /\ config = [MaxSamples |-> 0, Timeout |-> 0, ProgressCallback |-> FALSE]
    /\ ctxDone = FALSE
    /\ pc = "idle"
    /\ i = 0
    /\ total = 0
    /\ result = NilResult
    /\ evalCtx = NoCtx
    /\ ret = NotReturned
    /\ trace = <<>>
    /\ TextIdle
    /\ CallIdle
    /\ IterIdle

\* the sample of the slice, without the lookup of Get
RawSample(d, k) == d.samples[k + 1]

\* the value of the k-th send (k from 0): the element of d.samples, which
\* the BFCL dataset reads with d.Get(k)
IterSample(d, k) ==
    IF d.kind = "bfcl" THEN Get(d, k).sample ELSE d.samples[k + 1]

\* Iterator(): ch := make(chan Sample); go func() {...}(); return ch.  The
\* caller starts to receive from the channel.
CallIterator ==
    /\ ch = "nil"
    /\ ch' = "open"
    /\ producer' = "running"
    /\ consumer' = "receiving"
    /\ UNCHANGED <<runVars, textVars, callVars, loadVars, sent, received>>

\* ch <- sample in the loop of the goroutine, taken by a receive
SendReceive ==
    /\ producer = "running"
    /\ sent < Len(dataset.samples)
    /\ consumer = "receiving"
    /\ received' = Append(received, IterSample(dataset, sent))
    /\ sent' = sent + 1
    /\ UNCHANGED <<runVars, textVars, callVars, loadVars, ch, producer, consumer>>

\* the loop has ended: the deferred close(ch) runs and the goroutine returns
CloseChannel ==
    /\ producer = "running"
    /\ sent >= Len(dataset.samples)
    /\ ch' = "closed"
    /\ producer' = "done"
    /\ UNCHANGED <<runVars, textVars, callVars, loadVars, sent, consumer, received>>

\* the receiver finds the channel closed and ends its loop
ReceiveClosed ==
    /\ consumer = "receiving"
    /\ ch = "closed"
    /\ consumer' = "finished"
    /\ UNCHANGED <<runVars, textVars, callVars, loadVars, ch, producer, sent, received>>

\* the receiver gives up before the channel is closed
ConsumerStops ==
    /\ consumer = "receiving"
    /\ ch = "open"
    /\ consumer' = "stopped"
    /\ UNCHANGED <<runVars, textVars, callVars, loadVars, ch, producer, sent, received>>

NextIterator ==
    \/ CallIterator
    \/ SendReceive
    \/ CloseChannel
    \/ ReceiveClosed
    \/ ConsumerStops

SpecIterator == InitIterator /\ [][NextIterator]_vars

\* the scheduler of Go runs every goroutine that can run: a send with a
\* receiver waiting completes, the goroutine whose loop has ended closes
\* the channel, and a receive on a closed channel returns
SpecIteratorFair ==
    /\ SpecIterator
    /\ WF_vars(SendReceive)
    /\ WF_vars(CloseChannel)
    /\ WF_vars(ReceiveClosed)

(***************************************************************************)
(* Dataset.Load line by line, called several times on one dataset.  The    *)
(* file behind the dataset is a sequence of lines, each an entry or a line *)
(* that is not JSON; the scanner may fail after the last line it returns   *)
(* (a line above its buffer, a read error).  A call is given the number of *)
(* lines its loops get through before its context is cancelled.            *)
(***************************************************************************)
\* the calls of Load made on one dataset
MaxLoads == 3

Line(bad, entry) == [bad |-> bad, entry |-> entry]

\* the files of at most MaxDataset lines, any of them not JSON
LinesOf(kind, n, badLines) ==
    [k \in 1..n |-> Line(k \in badLines, Entries(kind)[((k - 1) % Len(Entries(kind))) + 1])]

LoadFiles(kind) ==
    {[err |-> TRUE, lines |-> <<>>, scanErr |-> FALSE]}
    \cup UNION {{[err |-> FALSE, lines |-> LinesOf(kind, n, badLines), scanErr |-> se] :
                    badLines \in SUBSET (1..n), se \in BOOLEAN} : n \in 0..MaxDataset}

\* the sample parseItem makes of an entry read as the idx-th (from 0)
ParsedSample(kind, entry, idx) ==
    Sample(SampleID(idx), entry.Expected, entry.Level, SampleCategory(kind, entry.Level))

\* the loop over the lines of a data file from line k on: [err, samples],
\* the samples appended to those the dataset already holds.  budget is the
\* number of lines the loop gets through before ctx.Done() is seen; strict
\* tells whether a line that is not JSON ends the loop (BFCL) or is skipped.
RECURSIVE ScanLines(_, _, _, _, _, _, _)
ScanLines(kind, file, k, idx, budget, strict, samples) ==
    IF k > Len(file.lines)
    THEN [err |-> IF file.scanErr THEN "scanner error" ELSE "", samples |-> samples]
    ELSE IF budget = 0 THEN [err |-> "context canceled", samples |-> samples]
    ELSE IF file.lines[k].bad
    THEN IF strict THEN [err |-> "parsing a line failed", samples |-> samples]
         ELSE ScanLines(kind, file, k + 1, idx, budget - 1, strict, samples)
    ELSE ScanLines(kind, file, k + 1, idx + 1, budget - 1, strict,
                   Append(samples, ParsedSample(kind, file.lines[k].entry, idx)))

\* the loop of loadGroundTruth over the lines of the answer file, which
\* holds one line for each entry of the data file: [err, groundTruth]
RECURSIVE ScanTruth(_, _, _, _, _)
TruthPut(groundTruth, id, entry) ==
    IF entry.hasGT
    THEN [x \in DOMAIN groundTruth \cup {id} |-> IF x = id THEN entry.GT ELSE groundTruth[x]]
    ELSE groundTruth

ScanTruth(file, k, idx, budget, groundTruth) ==
    IF k > Len(file.lines) THEN [err |-> "", groundTruth |-> groundTruth]
    ELSE IF budget = 0 THEN [err |-> "context canceled", groundTruth |-> groundTruth]
    ELSE ScanTruth(file, k + 1, idx + 1, budget - 1,
                   TruthPut(groundTruth, SampleID(idx), file.lines[k].entry))

\* Load of the GAIA dataset after the directory was found: the error of
\* loadJSONL is kept in loadErr and only reported when no sample was read
GaiaLoaded(d, scanned) ==
    IF Len(scanned.samples) = 0
    THEN [err |-> "no GAIA data", dataset |-> [d EXCEPT !.samples = scanned.samples]]
    ELSE [err |-> "", dataset |-> [d EXCEPT !.samples = scanned.samples, !.loaded = TRUE]]

\* Load of the BFCL dataset: the data file, then the ground truth
BfclTruthLoaded(d, truth) ==
    IF truth.err # ""
    THEN [err |-> "loading the ground truth failed",
          dataset |-> [d EXCEPT !.groundTruth = truth.groundTruth]]
    ELSE [err |-> "", dataset |-> [d EXCEPT !.groundTruth = truth.groundTruth,
                                            !.loaded = TRUE]]

BfclLoaded(d, scanned, budget) ==
    IF scanned.err # ""
    THEN [err |-> "loading the data file failed",
          dataset |-> [d EXCEPT !.samples = scanned.samples]]
    ELSE BfclTruthLoaded([d EXCEPT !.samples = scanned.samples],
                         ScanTruth(d.file, 1, 0, budget - Len(d.file.lines), d.groundTruth))

\* Load of the generated-data dataset: a cancelled loop returns at once;
\* after the loop loaded is set and the error of the scanner is returned
JudgeLoaded(d, scanned) ==
    IF scanned.err = "context canceled"
    THEN [err |-> scanned.err, dataset |-> [d EXCEPT !.samples = scanned.samples]]
    ELSE [err |-> scanned.err,
          dataset |-> [d EXCEPT !.samples = scanned.samples, !.loaded = TRUE]]

\* Dataset.Load(ctx): [err, dataset]
LoadCall(d, budget) ==
    IF d.loaded THEN [err |-> "", dataset |-> d]
    ELSE IF d.file.err THEN [err |-> "cannot read the data", dataset |-> d]
    ELSE CASE d.kind = "gaia" ->
                GaiaLoaded(d, ScanLines("gaia", d.file, 1, 0, budget, FALSE, d.samples))
           [] d.kind = "bfcl" ->
                BfclLoaded(d, ScanLines("bfcl", d.file, 1, 0, budget, TRUE, d.samples), budget)
           [] d.kind = "judge" ->
                JudgeLoaded(d, ScanLines("judge", d.file, 1, 0, budget, FALSE, d.samples))

InitLoad ==
    /\ evaluator \in Evaluators
    /\ \E f \in LoadFiles(evaluator) :
          dataset = [kind |-> evaluator, file |-> f, loaded |-> FALSE,
                     samples |-> <<>>, groundTruth |-> <<>>]
    /\ config = [MaxSamples |-> 0, Timeout |-> 0, ProgressCallback |-> FALSE]
    /\ ctxDone = FALSE
    /\ pc = "idle"
    /\ i = 0
    /\ total = 0
    /\ result = NilResult
    /\ evalCtx = NoCtx
    /\ ret = NotReturned
    /\ trace = <<>>
    /\ TextIdle
    /\ CallIdle
    /\ IterIdle

\* one call of Load whose context is never cancelled
LoadRuns ==
    /\ loads < MaxLoads
    /\ loads' = loads + 1
    /\ dataset' = LoadCall(dataset, 2 * Len(dataset.file.lines) + 1).dataset
    /\ loadRet' = LoadCall(dataset, 2 * Len(dataset.file.lines) + 1).err
    /\ UNCHANGED <<evaluator, config, ctxDone, pc, i, total, result, evalCtx, ret, trace,
                   textVars, callVars, iterVars>>

\* one call of Load whose context is cancelled before it or while it reads
LoadCancelled ==
    /\ loads < MaxLoads
    /\ loads' = loads + 1
    /\ \E budget \in 0..(2 * Len(dataset.file.lines)) :
          /\ dataset' = LoadCall(dataset, budget).dataset
          /\ loadRet' = LoadCall(dataset, budget).err
    /\ UNCHANGED <<evaluator, config, ctxDone, pc, i, total, result, evalCtx, ret, trace,
                   textVars, callVars, iterVars>>

NextLoad ==
    \/ LoadRuns
    \/ LoadCancelled

SpecLoad == InitLoad /\ [][NextLoad]_vars

(***************************************************************************)
(* Properties of Evaluate, read off the trace of a run.                    *)
(***************************************************************************)
\* the positions of trace that hold an event of kind ev
Positions(ev) == {p \in 1..Len(trace) : trace[p].ev = ev}

\* how many events of kind ev trace holds up to position p
Ordinal(ev, p) == Cardinality({q \in Positions(ev) : q <= p})

\* the IDs of the first n samples of the dataset
FirstIDs(n) == [k \in 1..n |-> dataset.samples[k].ID]

\* the IDs of the results in a list of SampleResult
ResultIDs(results) == [k \in 1..Len(results) |-> results[k].SampleID]

\* C1: when the dataset loads and the context is never cancelled, total is
\* MaxSamples if 0 < MaxSamples < Len() and Len() otherwise, the samples are
\* evaluated one at a time in index order 0..total-1, Evaluate returns a nil
\* error, and DetailedResults has exactly total entries, the k-th being the
\* result of the sample at dataset index k, whatever failed on the way.
EvaluateCoversTotalInOrder ==
    /\ dataset.loaded =>
          total = IF 0 < config.MaxSamples /\ config.MaxSamples < Len(dataset.samples)
                  THEN config.MaxSamples
                  ELSE Len(dataset.samples)
    /\ \A p \in Positions("call") :
          /\ trace[p].i = Ordinal("call", p) - 1
          /\ Ordinal("result", p) = Ordinal("call", p) - 1
    /\ \A p \in Positions("result") :
          /\ trace[p].i = Ordinal("result", p) - 1
          /\ Ordinal("call", p) = Ordinal("result", p)
    /\ (ret.returned /\ dataset.loaded /\ ~ctxDone) =>
          /\ ret.err = ""
          /\ ~ret.result.isNil
          /\ ret.result.TotalSamples = total
          /\ Len(ret.result.DetailedResults) = total
          /\ ResultIDs(ret.result.DetailedResults) = FirstIDs(total)
          /\ Cardinality(Positions("call")) = total

\* a run capped by MaxSamples returns normally with a failed sample among
\* its results
CappedRunReturnsAllResults ==
    /\ ret.returned
    /\ ret.err = ""
    /\ ~ctxDone
    /\ config.MaxSamples = 2
    /\ Len(dataset.samples) = 3
    /\ Len(ret.result.DetailedResults) = 2
    /\ ret.result.DetailedResults[1].Error # ""
    /\ ret.result.DetailedResults[2].Error = ""

\* C2: whenever the evaluation of a sample ends in a recoverable failure
\* (agent or judge call failure, extraction failure, ground-truth parse
\* failure, missing ground truth, per-sample timeout), the SampleResult
\* appended for it has a non-empty Error, Success = false and
\* PartialSuccess = false, and the loop goes on with the next sample.
RecoverableFailureRecorded ==
    \A p \in Positions("result") :
        trace[p].failure # "none" =>
            /\ trace[p].i + 1 <= Len(result.DetailedResults)
            /\ result.DetailedResults[trace[p].i + 1].Error # ""
            /\ ~result.DetailedResults[trace[p].i + 1].Success
            /\ ~result.DetailedResults[trace[p].i + 1].PartialSuccess
            /\ (p = Len(trace) - Len(ProgressEvents(0, 0)) /\ ~ret.returned) =>
                  pc = "loop" /\ i = trace[p].i + 1

\* C3: cancellation of the run context is checked before each sample starts:
\* once Evaluate observes it no further agent call is started, and Evaluate
\* returns a non-nil result with the cancellation error, whose
\* DetailedResults is exactly the results of the samples completed before,
\* in index order.  A sample in progress is never dropped from the result.
CancellationStopsBeforeNextSample ==
    /\ \A p \in Positions("call") : ~trace[p].cancelled
    /\ Len(result.DetailedResults) =
          Cardinality(Positions("call")) - (IF pc = "call" THEN 1 ELSE 0)
    /\ (ret.returned /\ ret.err = "context canceled") =>
          /\ ~ret.result.isNil
          /\ ret.result.DetailedResults = result.DetailedResults
          /\ Len(ret.result.DetailedResults) = Cardinality(Positions("call"))
          /\ Len(ret.result.DetailedResults) < total
          /\ ResultIDs(ret.result.DetailedResults)
                = FirstIDs(Len(ret.result.DetailedResults))
          /\ trace # <<>> => trace[Len(trace)].ev # "call"

\* the context is cancelled during the agent call of the second sample: the
\* call ends with the cancellation error, its result is kept and Evaluate
\* returns the two results with the cancellation error
CancelledRunKeepsSampleInProgress ==
    /\ ret.returned
    /\ ret.err = "context canceled"
    /\ total = 3
    /\ Len(ret.result.DetailedResults) = 2
    /\ \E p \in Positions("result") : trace[p].i = 1 /\ trace[p].failure = "cancelled"

\* C4: when Timeout > 0 and the timeout expires during the agent call of
\* sample i, only that call is aborted: sample i is recorded with a non-empty
\* Error and Success = false, the context of the run is not cancelled by the
\* expiry, and the samples after i are still evaluated, each under a fresh
\* timeout measured from when that sample starts.
TimeoutAbortsOnlyItsCall ==
    /\ [](\A p \in Positions("result") :
            trace[p].failure = "timeout" =>
                /\ config.Timeout > 0
                /\ ~trace[p].cancelled
                /\ result.DetailedResults[trace[p].i + 1].Error # ""
                /\ ~result.DetailedResults[trace[p].i + 1].Success)
    /\ [][AgentTimesOut => ~ctxDone' /\ pc' = "loop" /\ i' = i + 1]_vars
    /\ [][(pc = "loop" /\ pc' = "call") =>
             /\ evalCtx'.live
             /\ evalCtx'.timed = (config.Timeout > 0)
             /\ evalCtx'.elapsed = 0]_vars

\* the call of the first sample times out and the second sample is answered
\* and scored afterwards, the context of the run never cancelled
SampleAfterTimeoutEvaluated ==
    /\ ~ctxDone
    /\ config.Timeout > 0
    /\ \E p \in Positions("result"), q \in Positions("result") :
          /\ p < q
          /\ trace[p].failure = "timeout"
          /\ trace[q].failure = "none"
          /\ result.DetailedResults[trace[q].i + 1].Error = ""

\* C5: if the dataset Load returns an error, Evaluate returns a nil result
\* and a non-nil error without calling the agent, the judge or the progress
\* callback even once; in every other case, cancellation included, Evaluate
\* returns a non-nil result.
LoadErrorReturnsNilResult ==
    ret.returned =>
        IF dataset.loaded
        THEN ~ret.result.isNil
        ELSE /\ ret.result.isNil
             /\ ret.err # ""
             /\ trace = <<>>

\* Evaluate has returned for a dataset whose file cannot be read
UnreadableDatasetReturned ==
    /\ ret.returned
    /\ dataset.file.err
    /\ ~dataset.loaded
    /\ ret.err # ""

\* C6: a progress callback that is supplied is called exactly once per
\* sample, after the result of the sample has been appended and before the
\* agent call of the next sample, with (done, total) where done is 1, 2, ...,
\* total in that order and total is the same in every call; in a run that is
\* not cancelled the last call is (total, total).
ProgressCallbackOncePerSample ==
    /\ ~config.ProgressCallback => Positions("callback") = {}
    /\ config.ProgressCallback =>
          /\ \A p \in Positions("result") :
                /\ p < Len(trace)
                /\ trace[p + 1].ev = "callback"
                /\ trace[p + 1].i = trace[p].i
          /\ \A p \in Positions("callback") :
                /\ p > 1
                /\ trace[p - 1].ev = "result"
                /\ trace[p].done = Ordinal("callback", p)
                /\ trace[p].done = Ordinal("result", p)
                /\ trace[p].done <= Len(result.DetailedResults)
                /\ trace[p].total = total
          /\ (ret.returned /\ ret.err = "" /\ total > 0) =>
                /\ Cardinality(Positions("callback")) = total
                /\ trace[Len(trace)].ev = "callback"
                /\ trace[Len(trace)].done = total
                /\ trace[Len(trace)].total = total

\* a run of three samples with a callback has returned normally after the
\* callback was called with (3, 3)
CallbackReachedTotal ==
    /\ ret.returned
    /\ ret.err = ""
    /\ config.ProgressCallback
    /\ total = 3
    /\ Cardinality(Positions("callback")) = 3
    /\ trace[Len(trace)].ev = "callback"
    /\ trace[Len(trace)].done = 3
    /\ trace[Len(trace)].total = 3

\* C9: an exact match implies a partial match in text scoring: evaluateMatch
\* never returns (true, false), and every SampleResult of the GAIA evaluator
\* has Success => PartialSuccess, whether the answer was matched, the agent
\* failed or the expected answer is not a string.
ExactImpliesPartial ==
    evaluator = "gaia" =>
        \A k \in 1..Len(result.DetailedResults) :
            /\ result.DetailedResults[k].Success => result.DetailedResults[k].PartialSuccess
            /\ result.DetailedResults[k].Error # "" =>
                  /\ ~result.DetailedResults[k].Success
                  /\ ~result.DetailedResults[k].PartialSuccess
            /\ result.DetailedResults[k].Error = "" =>
                  /\ result.DetailedResults[k].Details.exact_match
                        => result.DetailedResults[k].Details.partial_match
                  /\ result.DetailedResults[k].Success
                        = result.DetailedResults[k].Details.exact_match
                  /\ result.DetailedResults[k].PartialSuccess
                        = result.DetailedResults[k].Details.partial_match

\* the GAIA evaluator has scored an exact match, an agent error and a
\* sample whose expected answer is not a string
GaiaExactMatchScored ==
    /\ evaluator = "gaia"
    /\ \E k \in 1..Len(result.DetailedResults) :
          /\ result.DetailedResults[k].Success
          /\ result.DetailedResults[k].PartialSuccess
    /\ \E p \in Positions("result") : trace[p].failure = "agent"
    /\ \E p \in Positions("result") : trace[p].failure = "expected_format"

(***************************************************************************)
(* Properties of the GAIA text functions.                                  *)
(***************************************************************************)
\* C7: normalizeAnswer is idempotent: normalizing a normalized answer
\* returns it unchanged, for every answer, those with a repeated leading
\* article and those with a currency symbol after trailing punctuation
\* included.
NormalizeAnswerIdempotent ==
    textOp = "normalizeAnswer" => normalizeAnswer(textOut) = textOut

\* the commas of s that sit between a digit and a run of exactly three digits
ThousandsCommas(s) ==
    {k \in 2..Len(s) : /\ s[k] = ","
                       /\ s[k - 1] \in Digits
                       /\ DigitsEnd(s, k + 1) - (k + 1) = 3}

\* s without the characters at the positions ks
RECURSIVE DropAt(_, _, _)
DropAt(s, ks, k) ==
    IF k > Len(s) THEN <<>>
    ELSE (IF k \in ks THEN <<>> ELSE <<s[k]>>) \o DropAt(s, ks, k + 1)

\* C8: removeNumberCommas removes a comma only when it sits between a digit
\* and a run of exactly three digits, until no such pattern remains; a comma
\* followed by a digit run of any other length (two digits, four or more)
\* stays in place, and a string without such a pattern is returned unchanged.
OnlyThousandsCommasRemoved ==
    textOp = "removeNumberCommas" =>
        /\ textOut = DropAt(textIn, ThousandsCommas(textIn), 1)
        /\ ThousandsCommas(textIn) = {} => textOut = textIn

\* the outcome the rules of evaluateMatch give for the normalized prediction
\* p and the normalized expected answer e, with e split into the tokens ws
RuleOutcome(p, e, ws) ==
    IF p = e THEN <<TRUE, TRUE>>
    ELSE IF Contains(p, e) \/ Contains(e, p) THEN <<FALSE, TRUE>>
    ELSE IF /\ Len(ws) > 0
            /\ 10 * Cardinality({k \in 1..Len(ws) : Contains(p, ws[k])}) >= 7 * Len(ws)
         THEN <<FALSE, TRUE>>
    ELSE <<FALSE, FALSE>>

\* the number of tokens of the normalized textExp that occur in the
\* normalized textIn
TokensFound ==
    Cardinality({k \in 1..Len(Fields(normalizeAnswer(textExp))) :
                    Contains(normalizeAnswer(textIn), Fields(normalizeAnswer(textExp))[k])})

\* neither normalized answer equals or contains the other
NoContainment ==
    /\ normalizeAnswer(textIn) # normalizeAnswer(textExp)
    /\ ~Contains(normalizeAnswer(textIn), normalizeAnswer(textExp))
    /\ ~Contains(normalizeAnswer(textExp), normalizeAnswer(textIn))

\* C10: evaluateMatch applies its rules to the normalized strings in order,
\* the first that matches wins: equal strings give (true, true); otherwise
\* containment in either direction gives (false, true); otherwise (false,
\* true) exactly when at least 0.7 of the whitespace tokens of the expected
\* string occur in the prediction, so that 7 of 10 passes and 2 of 3 does
\* not; otherwise (false, false).
EvaluateMatchRulesInOrder ==
    textOp = "evaluateMatch" =>
        /\ matchOut = RuleOutcome(normalizeAnswer(textIn), normalizeAnswer(textExp),
                                  Fields(normalizeAnswer(textExp)))
        /\ (NoContainment /\ Len(Fields(normalizeAnswer(textExp))) = 10 /\ TokensFound = 7)
              => matchOut = <<FALSE, TRUE>>
        /\ (NoContainment /\ Len(Fields(normalizeAnswer(textExp))) = 3 /\ TokensFound = 2)
              => matchOut = <<FALSE, FALSE>>

\* evaluateMatch has scored a prediction that holds 7 of the 10 tokens of
\* the expected answer and neither equals nor contains it
SevenOfTenScored ==
    /\ textOp = "evaluateMatch"
    /\ NoContainment
    /\ Len(Fields(normalizeAnswer(textExp))) = 10
    /\ TokensFound = 7
    /\ matchOut = <<FALSE, TRUE>>

(***************************************************************************)
(* Properties of the BFCL comparison and scoring.                          *)
(***************************************************************************)
\* compareFunctionCall has been applied to the input
Compared == callOp = "done" /\ callIn.f = "compareFunctionCall"

\* C11: when the name of the predicted call is not exactly the name of the
\* expected call, compareFunctionCall returns 0 whatever the arguments are.
NameMismatchScoresZero ==
    (Compared /\ callIn.predicted.Name # callIn.expected.Name) => callOut[1] = 0

\* the names differ in case only and the arguments are the same, not empty
CaseMismatchWithEqualArgumentsScored ==
    /\ Compared
    /\ callIn.predicted.Name = <<"F">>
    /\ callIn.expected.Name = <<"f">>
    /\ callIn.predicted.Arguments = callIn.expected.Arguments
    /\ Len(callIn.expected.Arguments.keys) > 0

\* the names of the parameters of a call
ParamSet(call) == {call.Arguments.keys[k] : k \in 1..Len(call.Arguments.keys)}

\* the expected parameters that the predicted call has with an equal value
EqualParams(predicted, expected) ==
    {p \in ParamSet(expected) :
        /\ p \in ParamSet(predicted)
        /\ compareValues(MapGet(predicted.Arguments, p)[2], MapGet(expected.Arguments, p)[2])}

\* the call without the parameters that are not among names
Kept(call, names) == SelectSeq([k \in 1..Len(call.Arguments.keys) |-> k],
                               LAMBDA k : call.Arguments.keys[k] \in names)

OnlyParams(call, names) ==
    FunctionCall(call.Name,
                 JMap([k \in 1..Len(Kept(call, names)) |-> call.Arguments.keys[Kept(call, names)[k]]],
                      [k \in 1..Len(Kept(call, names)) |-> call.Arguments.items[Kept(call, names)[k]]]))

\* C12: with equal names the score is 1 when the expected call has no
\* parameters, and otherwise the number of expected parameters that the
\* predicted call has with an equal value, over the number of expected
\* parameters; the parameters only the predicted call has change nothing.
ParameterFractionScored ==
    (Compared /\ callIn.predicted.Name = callIn.expected.Name) =>
        /\ callOut = IF ParamSet(callIn.expected) = {} THEN <<1, 1>>
                     ELSE <<Cardinality(EqualParams(callIn.predicted, callIn.expected)),
                            Cardinality(ParamSet(callIn.expected))>>
        /\ callOut = compareFunctionCall(OnlyParams(callIn.predicted, ParamSet(callIn.expected)),
                                         callIn.expected)

\* one of two expected parameters is matched: the score is one half
OneOfTwoParametersScored ==
    /\ Compared
    /\ callIn.predicted.Name = callIn.expected.Name
    /\ Cardinality(ParamSet(callIn.expected)) = 2
    /\ ParamSet(callIn.predicted) = ParamSet(callIn.expected)
    /\ callOut = <<1, 2>>

\* evaluateMatch has been applied to two lists that are not empty
Matched ==
    /\ callOp = "done"
    /\ callIn.f = "evaluateMatch"
    /\ callIn.predicted # <<>>
    /\ callIn.expected # <<>>

\* the greatest score of the expected call e over the predicted calls
BestOf(predicted, e) ==
    CHOOSE s \in {compareFunctionCall(predicted[k], e) : k \in 1..Len(predicted)} :
        \A k \in 1..Len(predicted) : ~FracLess(s, compareFunctionCall(predicted[k], e))

AllBestAreOne(predicted, expected) ==
    \A k \in 1..Len(expected) : FracEq(BestOf(predicted, expected[k]), <<1, 1>>)

\* the float64 sum of the best scores of expected[1..k], added in this order
FracQuotient(fr) == Quotient64(fr[1], fr[2])

RECURSIVE SumOfBest(_, _, _)
SumOfBest(predicted, expected, k) ==
    IF k = 0 THEN Zero64
    ELSE Add64(SumOfBest(predicted, expected, k - 1),
               FracQuotient(BestOf(predicted, expected[k])))

MeanOfBest(predicted, expected) ==
    DivNat64(SumOfBest(predicted, expected, Len(expected)), Len(expected))

\* the list with the elements at k and k + 1 exchanged; every other order of
\* a list is reached by such exchanges
SwapAt(s, k) ==
    [j \in 1..Len(s) |-> IF j = k THEN s[k + 1] ELSE IF j = k + 1 THEN s[k] ELSE s[j]]

Rescored(predicted, expected) == bfclEvaluateMatch(predicted, TruthList(expected))

\* Success and Score are the same for the predicted calls in another order
Outcome(m) == <<m.success, m.score>>

PredictedOrderIrrelevant ==
    \A k \in 1..(Len(callIn.predicted) - 1) :
        Outcome(Rescored(SwapAt(callIn.predicted, k), callIn.expected)) = Outcome(callOut)

\* the expected calls k for which the Score changes when the expected calls
\* at k and k + 1 change places
ScoreChangingSwaps ==
    {k \in 1..(Len(callIn.expected) - 1) :
        Rescored(callIn.predicted, SwapAt(callIn.expected, k)).score # callOut.score}

\* C13 as it stands: Success holds exactly when every expected call has a
\* best score of 1 over the predicted calls, the Score is the mean of the
\* best scores and does not depend on the order of either list, and Success
\* holds exactly when the Score is 1.
ScoreIndependentOfOrder ==
    Matched =>
        /\ callOut.success = AllBestAreOne(callIn.predicted, callIn.expected)
        /\ callOut.score = MeanOfBest(callIn.predicted, callIn.expected)
        /\ PredictedOrderIrrelevant
        /\ ScoreChangingSwaps = {}
        /\ callOut.success = (callOut.score = Nat64(1))

\* C13, amended: Success holds exactly when every expected call has a best
\* score of 1 over the predicted calls; the Score is the float64 sum of the
\* best scores, added in the order of the expected calls, divided by their
\* number; neither depends on the order of the predicted calls, Success
\* does not depend on the order of the expected calls, and Success holds
\* exactly when the Score is 1.
BestMatchMeanScored ==
    Matched =>
        /\ callOut.success = AllBestAreOne(callIn.predicted, callIn.expected)
        /\ callOut.score = MeanOfBest(callIn.predicted, callIn.expected)
        /\ PredictedOrderIrrelevant
        /\ \A k \in 1..(Len(callIn.expected) - 1) :
              Rescored(callIn.predicted, SwapAt(callIn.expected, k)).success = callOut.success
        /\ callOut.success = (callOut.score = Nat64(1))

\* three expected calls with best scores 1, 1/3 and 1 are scored, and the
\* Score is another one when the last two change places
RoundedMeanScored ==
    /\ Matched
    /\ Len(callIn.expected) = 3
    /\ ~callOut.success
    /\ FracEq(BestOf(callIn.predicted, callIn.expected[2]), <<1, 3>>)
    /\ 2 \in ScoreChangingSwaps

(***************************************************************************)
(* Properties of the parsing of the ground truth.                          *)
(***************************************************************************)
\* parseGroundTruth has been applied to the input
Parsed == callOp = "done" /\ callIn.f = "parseGroundTruth"

\* a call as its name and the set of its parameters with their values
ArgPairs(args) == {<<args.keys[k], args.items[k]>> : k \in 1..Len(args.keys)}

CallView(call) == <<call.Name, ArgPairs(call.Arguments)>>

CallViews(calls) == {CallView(calls[k]) : k \in 1..Len(calls)}

\* an object in the function-name-keyed form
IsKeyed(g) ==
    /\ g.t = "map"
    /\ \A k \in 1..Len(g.keys) : g.keys[k] # <<"n","a","m","e">> \/ g.items[k].t # "str"

\* the object in the function-name-keyed form that the ground truth is, or
\* that is the one element of the list it is; null if there is none
KeyedOf(g) ==
    IF IsKeyed(g) THEN g
    ELSE IF g.t = "list" /\ Len(g.items) = 1 /\ IsKeyed(g.items[1]) THEN g.items[1]
    ELSE JNull

\* the parameters with, of each non-empty list, its first element
HeadOrSelf(v) == IF v.t = "list" /\ v.items # <<>> THEN Head(v.items) ELSE v

FirstValues(params) ==
    IF params.t # "map" THEN JMap(<<>>, <<>>)
    ELSE JMap(params.keys, [k \in 1..Len(params.keys) |-> HeadOrSelf(params.items[k])])

\* the calls that name the keys of g and hold the first values
FirstValueCalls(g) == [k \in 1..Len(g.keys) |-> FunctionCall(g.keys[k], FirstValues(g.items[k]))]

\* C14: a ground truth in the function-name-keyed form parses to one call
\* per key, named after the key, in which every parameter that is a
\* non-empty list has the first element of the list as its value; predicted
\* calls with these values score 1.
KeyedFormTakesFirstValue ==
    (Parsed /\ callIn.form = "plain" /\ KeyedOf(callIn.gt) # JNull) =>
        /\ callOut.ok
        /\ Len(callOut.calls) = Len(KeyedOf(callIn.gt).keys)
        /\ CallViews(callOut.calls) = CallViews(FirstValueCalls(KeyedOf(callIn.gt)))
        /\ bfclEvaluateMatch(FirstValueCalls(KeyedOf(callIn.gt)), callIn.gt).success
        /\ bfclEvaluateMatch(FirstValueCalls(KeyedOf(callIn.gt)), callIn.gt).score = Nat64(1)

\* {"f": {"x": [1, 2]}} has been parsed to the call f with x = 1
FirstOfTwoValuesParsed ==
    /\ Parsed
    /\ callIn.gt = JMap(<< <<"f">> >>,
                        << JMap(<< <<"x">> >>, << JList(<<JNum(1), JNum(2)>>) >>) >>)
    /\ callOut.ok
    /\ callOut.calls = << FunctionCall(<<"f">>, JMap(<< <<"x">> >>, <<JNum(1)>>)) >>

\* the outcome is that of the ground truth written as a list or an object
ParsedAsPlain ==
    /\ callOut.ok = parseGroundTruth(callIn.plain).ok
    /\ Len(callOut.calls) = Len(parseGroundTruth(callIn.plain).calls)
    /\ CallViews(callOut.calls) = CallViews(parseGroundTruth(callIn.plain).calls)

\* C15: a ground truth that is a string in the textual form
\* name(arg=val, arg2=val2) parses to the one call of that name with those
\* arguments, when the string is the whole ground truth and when it is an
\* element of a list, nested or not.
TextualFormParsed ==
    (Parsed /\ callIn.form \in {"text", "text in list"}) =>
        /\ callOut.ok
        /\ Len(callOut.calls) = 1
        /\ ParsedAsPlain

\* C16: a string that holds the JSON text of a ground truth parses to the
\* calls of that ground truth, when the string is the whole ground truth and
\* when it is an element of a list.
JSONTextParsedAlike ==
    (Parsed /\ callIn.form \in {"json", "json in list"}) => ParsedAsPlain

(***************************************************************************)
(* Properties of the extraction of the predicted calls.                    *)
(***************************************************************************)
\* extractFunctionCalls has been applied to the input
Extracted == callOp = "done" /\ callIn.f = "extractFunctionCalls"

NoCalls == [ok |-> FALSE, calls |-> <<>>]

\* the fourth strategy by itself: the first fenced code block from position
\* from on whose content is a list of calls or else one call with a name
RECURSIVE BlockStrategy(_, _)
ContentParsed(r, m, content) ==
    IF DecodeCallList(content).ok THEN DecodeCallList(content)
    ELSE IF DecodeSingleCall(content).ok THEN DecodeSingleCall(content)
    ELSE BlockStrategy(r, m[3])

BlockFound(r, m) == IF ~m[1] THEN NoCalls ELSE ContentParsed(r, m, TrimSpace(m[2]))

BlockStrategy(r, from) == BlockFound(r, CodeBlockMatch(r, from))

\* the result of the first of the four strategies that succeeds on the
\* response r, each one taken by itself
FirstSuccess(r) ==
    IF DecodeCallList(r).ok THEN DecodeCallList(r)
    ELSE IF FirstArrayCalls(r, 1).ok THEN FirstArrayCalls(r, 1)
    ELSE IF DecodeSingleCall(r).ok THEN DecodeSingleCall(r)
    ELSE BlockStrategy(r, 1)

\* the sample result of a BFCL sample whose agent answers response
ResultOfResponse(response) ==
    bfclEvaluateSample([id \in {<<"s">>} |-> TruthOf(Call(<<"f">>, 0))],
                       Sample(<<"s">>, JNull, 0, "simple"),
                       [cause |-> "ok", err |-> "", response |-> response])

\* C17: extractFunctionCalls returns what the first of its four strategies
\* that succeeds gives (the whole response as a list of calls; a bracketed
\* array of objects with a name; the whole response as one call with a
\* name; the content of a fenced code block as a list, then as one call),
\* and an error exactly when all four fail; the sample is then a miss.
FirstStrategyWins ==
    Extracted =>
        /\ callOut = FirstSuccess(TrimSpace(callIn.response))
        /\ ~callOut.ok =>
              /\ ~ResultOfResponse(callIn.response).Success
              /\ ResultOfResponse(callIn.response).Score = Zero64
              /\ ResultOfResponse(callIn.response).Error # ""

(***************************************************************************)
(* Properties of the judge.                                                *)
(***************************************************************************)
\* parseJudgeResponse has been applied to the input
JudgeParsed == callOp = "done" /\ callIn.f = "parseJudgeResponse"

\* EvaluateSample of the judge has been applied to the input
JudgeEvaluated == callOp = "done" /\ callIn.f = "judgeEvaluateSample"

\* the JSON source of a reply: what stands between the first fence (and the
\* word json after it) and the next one, the reply itself if there are no
\* two fences
Between(r, open, close) ==
    IF open = 0 \/ close = 0 THEN r
    ELSE SubSeq(r, IF LiteralAt(r, open + 3, <<"j","s","o","n">>) THEN open + 7 ELSE open + 3,
                close - 1)

FromFence(r, open) ==
    Between(r, open, IF open = 0 THEN 0 ELSE IndexFrom(r, open + 3, Fence))

SourceOf(r) == FromFence(r, IndexFrom(r, 1, Fence))

\* the members of the object the source is that have the key and the type
MembersOf(d, key, type) ==
    IF ~d[1] \/ d[2].t # "map" THEN {}
    ELSE {k \in 1..Len(d[2].keys) : d[2].keys[k] = key /\ d[2].items[k].t = type}

\* the number of a dimension: that of the field if the source has it as a
\* number, else 3
DimensionOf(d, key) ==
    IF MembersOf(d, key, "num") = {} THEN 3
    ELSE d[2].items[CHOOSE k \in MembersOf(d, key, "num") : TRUE].n

CommentsOf(d) ==
    IF MembersOf(d, <<"c","o","m","m","e","n","t","s">>, "str") = {} THEN <<>>
    ELSE d[2].items[CHOOSE k \in MembersOf(d, <<"c","o","m","m","e","n","t","s">>, "str") : TRUE].s

\* the sum of the four dimensions of a JudgeScore
RubricSum(score) ==
    score.Correctness + score.Clarity + score.DifficultyMatch + score.Completeness

\* C18: every dimension parseJudgeResponse returns is the number of its
\* field when the JSON source of the reply (the first fenced code block if
\* there is one, else the reply) is an object that has the field as a number,
\* and 3 otherwise; Comments is empty unless the object has it as a string;
\* TotalScore is the mean of the four dimensions returned.
RubricReadWithDefaults ==
    JudgeParsed =>
        /\ callOut.Correctness =
              DimensionOf(JSONUnmarshal(SourceOf(callIn.response)), <<"c","o","r","r","e","c","t","n","e","s","s">>)
        /\ callOut.Clarity =
              DimensionOf(JSONUnmarshal(SourceOf(callIn.response)), <<"c","l","a","r","i","t","y">>)
        /\ callOut.DifficultyMatch =
              DimensionOf(JSONUnmarshal(SourceOf(callIn.response)), <<"d","i","f","f","i","c","u","l","t","y","_","m","a","t","c","h">>)
        /\ callOut.Completeness =
              DimensionOf(JSONUnmarshal(SourceOf(callIn.response)), <<"c","o","m","p","l","e","t","e","n","e","s","s">>)
        /\ callOut.Comments = CommentsOf(JSONUnmarshal(SourceOf(callIn.response)))
        /\ FracEq(callOut.TotalScore, <<RubricSum(callOut), 4>>)

\* a reply in a code block that gives correctness as a string, clarity as 5
\* and a total of 1 has been read: correctness is 3 and the total is not 1
StringFieldAndTotalIgnored ==
    /\ JudgeParsed
    /\ IndexFrom(callIn.response, 1, Fence) # 0
    /\ MembersOf(JSONUnmarshal(SourceOf(callIn.response)), <<"c","o","r","r","e","c","t","n","e","s","s">>, "str") # {}
    /\ MembersOf(JSONUnmarshal(SourceOf(callIn.response)), <<"t","o","t","a","l","_","s","c","o","r","e">>, "num") # {}
    /\ callOut.Correctness = 3
    /\ callOut.Clarity = 5
    /\ ~FracEq(callOut.TotalScore, <<1, 1>>)

\* C19: a sample of the judge passes exactly when the mean of its four
\* dimensions is at least 3; a reply without JSON that parses is no error
\* and gives four dimensions of 3, a Score of 3 and Success.
PassAtMeanThree ==
    JudgeEvaluated =>
        /\ callOut.Error = ""
        /\ callOut.Success = (RubricSum(callOut.Details.judge_score) >= 4 * 3)
        /\ FracEq(callOut.Score, <<RubricSum(callOut.Details.judge_score), 4>>)
        /\ ~JSONUnmarshal(SourceOf(callIn.response))[1] =>
              /\ callOut.Details.judge_score.Correctness = 3
              /\ callOut.Details.judge_score.Clarity = 3
              /\ callOut.Details.judge_score.DifficultyMatch = 3
              /\ callOut.Details.judge_score.Completeness = 3
              /\ FracEq(callOut.Score, <<3, 1>>)
              /\ callOut.Success

\* a reply of words only has been scored: the sample passes with Score 3
ProseReplyPasses ==
    /\ JudgeEvaluated
    /\ callIn.response = JudgeProse
    /\ callOut.Success
    /\ callOut.Error = ""
    /\ FracEq(callOut.Score, <<3, 1>>)

\* a float64 between 0 and 1
InUnitRange64(x) == x = Zero64 \/ x.e < 0 \/ x = Nat64(1)

\* C20: the Score of every sample result is in the range of its benchmark,
\* 0 to 1 for the function calls and 0 to 5 for the judge, and every
\* dimension parseJudgeResponse returns is in 1..5.
ScoresWithinRange ==
    /\ (callOp = "done" /\ callIn.f = "evaluateMatch") => InUnitRange64(callOut.score)
    /\ JudgeEvaluated =>
          /\ ~FracLess(callOut.Score, <<0, 1>>)
          /\ ~FracLess(<<5, 1>>, callOut.Score)
    /\ JudgeParsed =>
          /\ callOut.Correctness \in 1..5
          /\ callOut.Clarity \in 1..5
          /\ callOut.DifficultyMatch \in 1..5
          /\ callOut.Completeness \in 1..5

(***************************************************************************)
(* Properties of the metrics.                                              *)
(***************************************************************************)
\* the results of a list that succeeded, and those that matched partially
Successes(results) == Cardinality({k \in 1..Len(results) : results[k].Success})

Partials(results) == Cardinality({k \in 1..Len(results) : results[k].PartialSuccess})

Computed(fn) == callOp = "done" /\ callIn.f = fn

\* C21: Compute of the GAIA and of the BFCL metrics returns as Accuracy the
\* number of results with Success divided by the number of results, and 0
\* for the empty list; the counters exact_matches and partial_matches of
\* the GAIA summary, read as 0 when the summary has none, are the numbers
\* of results with Success and with PartialSuccess.
AccuracyIsSuccessRate ==
    /\ (Computed("gaia.Compute") \/ Computed("bfcl.Compute")) =>
          IF Len(callIn.results) = 0
          THEN callOut.Accuracy = <<0, 1>>
          ELSE /\ callOut.Accuracy[2] > 0
               /\ FracEq(callOut.Accuracy, <<Successes(callIn.results), Len(callIn.results)>>)
    /\ Computed("gaia.Compute") =>
          /\ DetailCount(callOut.Extra, "exact_matches") = Successes(callIn.results)
          /\ DetailCount(callOut.Extra, "partial_matches") = Partials(callIn.results)

\* two of three GAIA results succeeded and the accuracy is two thirds
TwoOfThreeSucceeded ==
    /\ Computed("gaia.Compute")
    /\ Len(callIn.results) = 3
    /\ Successes(callIn.results) = 2
    /\ Partials(callIn.results) = 3
    /\ FracEq(callOut.Accuracy, <<2, 3>>)
    /\ callOut.Extra.exact_matches = 2

\* the sum over the results of an integer of their Details, and of the
\* number of their predicted calls
RECURSIVE DetailSum(_, _)
DetailSum(results, key) ==
    IF results = <<>> THEN 0
    ELSE DetailCount(Head(results).Details, key) + DetailSum(Tail(results), key)

RECURSIVE PredictedSum(_)
PredictedSum(results) ==
    IF results = <<>> THEN 0
    ELSE PredictedCount(Head(results).Details) + PredictedSum(Tail(results))

\* rate is num / den, and 0 when den is 0
RateIs(rate, num, den) ==
    /\ rate[2] > 0
    /\ IF den = 0 THEN rate[1] = 0 ELSE FracEq(rate, <<num, den>>)

\* f1 is 2 * p * r / (p + r), and 0 when p and r are 0
HarmonicMeanIs(f1, p, r) ==
    /\ f1[2] > 0
    /\ IF p[1] = 0 /\ r[1] = 0 THEN f1[1] = 0
       ELSE f1[1] * (p[1] * r[2] + r[1] * p[2]) = 2 * p[1] * r[1] * f1[2]

\* C22: Compute of the BFCL metrics reports Precision = correct calls /
\* predicted calls and Recall = correct calls / expected calls, the three
\* numbers being the sums over the results of matched_count, of the number
\* of predicted_calls and of expected_count in their Details; a rate whose
\* denominator is 0 is 0; F1Score is 2 * Precision * Recall / (Precision +
\* Recall), and 0 when both are 0.
PrecisionRecallF1Reported ==
    Computed("bfcl.Compute") =>
        /\ RateIs(callOut.Precision, DetailSum(callIn.results, "matched_count"),
                  PredictedSum(callIn.results))
        /\ RateIs(callOut.Recall, DetailSum(callIn.results, "matched_count"),
                  DetailSum(callIn.results, "expected_count"))
        /\ HarmonicMeanIs(callOut.F1Score, callOut.Precision, callOut.Recall)

\* one of two predicted calls is correct and two of three expected calls
\* are missed: precision 1/2, recall 1/3, F1 2/5
HalfPrecisionThirdRecall ==
    /\ Computed("bfcl.Compute")
    /\ PredictedSum(callIn.results) = 2
    /\ DetailSum(callIn.results, "expected_count") = 3
    /\ DetailSum(callIn.results, "matched_count") = 1
    /\ FracEq(callOut.Precision, <<1, 2>>)
    /\ FracEq(callOut.Recall, <<1, 3>>)
    /\ FracEq(callOut.F1Score, <<2, 5>>)

\* the positions of the results of a level, a result of level 0 counting
\* as one of level 1
AtLevel(results, level) ==
    {k \in 1..Len(results) :
        IF results[k].Level = 0 THEN level = 1 ELSE results[k].Level = level}

RECURSIVE SumTotals(_, _)
SumTotals(m, levels) ==
    IF levels = {} THEN 0
    ELSE m[CHOOSE l \in levels : TRUE].Total
         + SumTotals(m, levels \ {CHOOSE l \in levels : TRUE})

LevelCountsOf(results, lm, at) ==
    /\ lm.Total = Cardinality(at)
    /\ lm.Total > 0
    /\ lm.ExactMatches = Cardinality({k \in at : results[k].Success})
    /\ lm.PartialMatches = Cardinality({k \in at : results[k].PartialSuccess})
    /\ RateIs(lm.ExactMatchRate, lm.ExactMatches, lm.Total)
    /\ RateIs(lm.PartialMatchRate, lm.PartialMatches, lm.Total)

LevelsPartition(results, m) ==
    /\ DOMAIN m = {l \in 0..3 : AtLevel(results, l) # {}}
    /\ SumTotals(m, DOMAIN m) = Len(results)
    /\ \A l \in DOMAIN m : m[l].Level = l /\ LevelCountsOf(results, m[l], AtLevel(results, l))

\* C23: ComputeLevelMetrics of the metrics and computeLevelMetrics of the
\* evaluator partition the results by level, a level of 0 counting as
\* level 1: the Totals of the levels sum to the number of results, the
\* ExactMatches and PartialMatches of a level count its results with
\* Success and with PartialSuccess, every level of the map has Total > 0
\* and the rates ExactMatches / Total and PartialMatches / Total, and the
\* two implementations return the same map.
LevelMetricsPartitionResults ==
    (Computed("ComputeLevelMetrics") \/ Computed("computeLevelMetrics")) =>
        /\ LevelsPartition(callIn.results, callOut)
        /\ callOut = ComputeLevelMetrics(callIn.results)
        /\ callOut = computeLevelMetrics(callIn.results)

\* a result of level 0, one of level 1 and one of level 2: level 1 has two
\* results, one of them an exact match
LevelZeroCountedAsOne ==
    /\ Computed("computeLevelMetrics")
    /\ Len(callIn.results) = 3
    /\ \E k \in 1..3 : callIn.results[k].Level = 0 /\ callIn.results[k].Success
    /\ \E k \in 1..3 : callIn.results[k].Level = 1 /\ ~callIn.results[k].Success
    /\ DOMAIN callOut = {1, 2}
    /\ callOut[1].Total = 2
    /\ FracEq(callOut[1].ExactMatchRate, <<1, 2>>)

Analyzed == Computed("AnalyzeDifficultyProgression")

\* the exact-match rate of a level of the map given to the analysis
RateIn(level) == callIn.levelMetrics[level].ExactMatchRate

\* C24: AnalyzeDifficultyProgression calls rates that fall strictly from
\* level 1 to level 2 to level 3 "expected_degradation", and whenever the
\* rate of level 2 is above the rate of level 1 the pattern is
\* "anomaly_level2_better" and not "expected_degradation".
ProgressionClassified ==
    Analyzed =>
        /\ (DOMAIN callIn.levelMetrics = {1, 2, 3}
            /\ FracLess(RateIn(2), RateIn(1)) /\ FracLess(RateIn(3), RateIn(2)))
           => callOut.performance_pattern = "expected_degradation"
        /\ ({1, 2} \subseteq DOMAIN callIn.levelMetrics /\ FracLess(RateIn(1), RateIn(2)))
           => callOut.performance_pattern = "anomaly_level2_better"

\* rates 1, 1/2 and 0 at the levels 1, 2 and 3, with the drops 1/2, 1, 1/2
FallingRatesDegrade ==
    /\ Analyzed
    /\ DOMAIN callIn.levelMetrics = {1, 2, 3}
    /\ FracEq(RateIn(1), <<1, 1>>) /\ FracEq(RateIn(2), <<1, 2>>) /\ FracEq(RateIn(3), <<0, 1>>)
    /\ callOut.performance_pattern = "expected_degradation"
    /\ FracEq(callOut.difficulty_drops["level1_to_level3"], <<1, 1>>)

\* the pairs of levels of a set with no level of the set between them
ConsecutivePairs(levels) ==
    {ab \in levels \X levels :
        ab[1] < ab[2] /\ ~\E c \in levels : ab[1] < c /\ c < ab[2]}

\* C25: the pattern is decided by comparing the rates of consecutive levels
\* that are present in the input: it is "expected_degradation" only if the
\* rate falls strictly between every two consecutive present levels, and
\* "anomaly_level2_better" only if levels 1 and 2 are both present and the
\* rate of level 2 is above that of level 1; an absent level is not a level
\* of rate 0.
TrendFromPresentLevels ==
    Analyzed =>
        /\ callOut.performance_pattern = "expected_degradation" =>
              \A ab \in ConsecutivePairs(DOMAIN callIn.levelMetrics) :
                  FracLess(RateIn(ab[2]), RateIn(ab[1]))
        /\ callOut.performance_pattern = "anomaly_level2_better" =>
              /\ {1, 2} \subseteq DOMAIN callIn.levelMetrics
              /\ FracLess(RateIn(1), RateIn(2))

\* a rate between 0 and 1
InUnitRange(rate) ==
    rate[2] > 0 /\ ~FracLess(rate, <<0, 1>>) /\ ~FracLess(<<1, 1>>, rate)

\* the calls counted as correct are no more than the predicted and no more
\* than the expected calls of the sample
MatchedWithin(details) ==
    "matched_count" \in DOMAIN details =>
        /\ details.matched_count <= Len(details.predicted_calls)
        /\ details.matched_count <= details.expected_count

\* C27: the matched_count of a scored BFCL sample exceeds neither the
\* number of its predicted calls nor the number of its expected calls (a
\* predicted call is the correct match of at most one expected call), and
\* the Precision, Recall and F1Score aggregated from such samples lie
\* between 0 and 1.
MatchedCallsBounded ==
    Computed("bfcl.Compute") =>
        /\ \A k \in 1..Len(callIn.results) : MatchedWithin(callIn.results[k].Details)
        /\ InUnitRange(callOut.Precision)
        /\ InUnitRange(callOut.Recall)
        /\ InUnitRange(callOut.F1Score)

(***************************************************************************)
(* Properties of Dataset.Iterator.                                         *)
(***************************************************************************)
\* the samples of the dataset as Get returns them, in index order
AllSamples(d) == [k \in 1..Len(d.samples) |-> Get(d, k - 1).sample]

\* what has been received is the first samples, each once and in order
ReceivedInOrder ==
    /\ Len(received) = sent
    /\ sent <= Len(dataset.samples)
    /\ received = SubSeq(AllSamples(dataset), 1, sent)

\* a sample is only handed over on an open channel, and the channel is only
\* closed once every sample has been handed over
SendsBeforeClose ==
    /\ (received' # received) => (ch = "open" /\ ch' = "open")
    /\ (ch' = "closed" /\ ch # "closed") => received = AllSamples(dataset)

IteratorDone ==
    /\ consumer = "finished"
    /\ ch = "closed"
    /\ producer = "done"
    /\ received = AllSamples(dataset)

\* C26: on the channel of Iterator a receiver that keeps receiving gets
\* every sample of the dataset once and in index order (of the BFCL dataset
\* with the ground truth attached, as Get returns it), and then the channel
\* is closed and the goroutine has ended; the goroutine sends nothing after
\* the close and does not close before every sample is sent.
IteratorDeliversAll ==
    /\ [](ReceivedInOrder /\ (producer = "done" <=> ch = "closed"))
    /\ [][SendsBeforeClose]_vars
    /\ (ch = "open") ~> (consumer = "stopped" \/ IteratorDone)

\* the three samples of a BFCL dataset received with their ground truth
BfclSamplesReceived ==
    /\ IteratorDone
    /\ dataset.kind = "bfcl"
    /\ Len(received) = 3
    /\ \E k \in 1..3 : received[k].Expected # dataset.samples[k].Expected

(***************************************************************************)
(* Properties of Dataset.Load.                                             *)
(***************************************************************************)
\* the samples of the lines of the file that are JSON, each once, in order
RECURSIVE GoodEntries(_)
GoodEntries(lines) ==
    IF lines = <<>> THEN <<>>
    ELSE IF Head(lines).bad THEN GoodEntries(Tail(lines))
    ELSE <<Head(lines).entry>> \o GoodEntries(Tail(lines))

FullSamples(d) == LoadedSamples(d.kind, GoodEntries(d.file.lines))

\* C30: Load is all-or-nothing over any sequence of calls: when a Load has
\* returned nil the dataset is loaded and holds every record of the file
\* exactly once, whatever the Loads before it returned, and when a Load has
\* returned an error the dataset is not marked as loaded, so that the next
\* Load reads the file again.
LoadAllOrNothing ==
    /\ loadRet = "" => (dataset.loaded /\ dataset.samples = FullSamples(dataset))
    /\ loadRet \notin {"", "none"} => ~dataset.loaded

(***************************************************************************)
(* Properties of evaluateMatch on a prediction that normalizes to nothing. *)
(***************************************************************************)
\* C28: a prediction that normalizes to the empty string is no partial match
\* for an expected answer that does not: evaluateMatch returns (false, false)
\* for it, so that the GAIA sample gets Score 0 and PartialSuccess = false.
EmptyPredictionIsNoMatch ==
    (/\ textOp = "evaluateMatch"
     /\ normalizeAnswer(textIn) = <<>>
     /\ normalizeAnswer(textExp) # <<>>) => matchOut = <<FALSE, FALSE>>

(***************************************************************************)
(* Properties of the result Evaluate returns.                              *)
(***************************************************************************)
\* the summary fields of an EvalResult agree with its list of results
SummaryAgrees(kind, res) ==
    /\ res.SuccessCount = Successes(res.DetailedResults)
    /\ Len(res.DetailedResults) <= res.TotalSamples
    /\ res.TotalSamples > 0 =>
          FracEq(res.OverallAccuracy, <<res.SuccessCount, res.TotalSamples>>)
    /\ res.Metrics = ComputeMetrics(kind, res.DetailedResults)

\* C29: every non-nil result Evaluate returns, from a run that completed or
\* from one cancelled part-way, has SuccessCount equal to the number of its
\* DetailedResults with Success, no more DetailedResults than TotalSamples,
\* OverallAccuracy = SuccessCount / TotalSamples when TotalSamples > 0, and
\* as Metrics the summary computed from DetailedResults.
ReturnedResultAgrees ==
    (ret.returned /\ ~ret.result.isNil) => SummaryAgrees(evaluator, ret.result)

====
